---- MODULE Spec2Model ----
(***************************************************************************)
(* Reflection code generator of Esoterica                                  *)
(* (Code/Applications/Reflector/TypeReflection/CodeGenerator.cpp).         *)
(*                                                                         *)
(* The generator reads a reflection database (projects, headers, types,     *)
(* resource types, data-file types) and accumulates generated files.  The  *)
(* specifications share one set of variables:                              *)
(*   SpecSort       one call of SortTypesByDependencies on a type list     *)
(*   SpecEnum       one call of GenerateEnumTypeInfo on an enumeration     *)
(*   SpecProject    GenerateCodeForSolution over a database of one project *)
(*                  whose types are enumerated exhaustively                *)
(*   SpecTypes      GenerateCodeForSolution over a database of one project *)
(*                  whose well-formed types carry every flag               *)
(*   SpecSolution   GenerateCodeForSolution over databases of several      *)
(*                  projects with enumerated flags                         *)
(*   SpecResources  GenerateCodeForSolution over databases with resource   *)
(*                  and data-file type tables                              *)
(*   SpecTypeInfo   one call of GenerateStructureTypeInfo and one call of  *)
(*                  a generated array accessor                             *)
(*   SpecLoadingStatus  the generated GetResourceLoadingStatus of a type   *)
(*                  called on an instance                                  *)
(*   SpecComponent  the generated Load, Unload and UpdateLoading of an     *)
(*                  entity component receiving calls                       *)
(***************************************************************************)
EXTENDS Integers, Sequences, FiniteSets, TLC

VARIABLES
    projects,          \* database: ReflectedProject records, in database order
    types,             \* database: ReflectedType records, in database order
    resourceTypes,     \* database: ReflectedResourceType records, in registration order
    dataFileTypes,     \* database: ReflectedDataFileType records, in registration order
    m_generatedFiles,  \* CodeGenerator::m_generatedFiles
    m_errorMessage,    \* CodeGenerator::m_errorMessage
    pc,                \* position of the generator in GenerateCodeForSolution
    prjIdx,            \* index of the project the loop of line 102 is at
    hdrIdx,            \* index of the header the loop of line 144 is at
    prjFilesBefore,    \* Len(m_generatedFiles) when GenerateCodeForProject was entered
    prjResults,        \* results of the GenerateCodeForProject calls so far
    lastHeader,        \* last GenerateTypeInfoFileForHeader call: header, result
    solutionResult,    \* return value of GenerateCodeForSolution
    structureTypes,    \* SortTypesByDependencies: the in/out parameter
    sortBefore,        \* SortTypesByDependencies: the parameter before the call
    sortReturn,        \* SortTypesByDependencies: the return value
    m_enumConstants,   \* GenerateEnumTypeInfo: typeInfo.m_enumConstants
    enumConstantInfos, \* GenerateEnumTypeInfo: the constantInfo entries emitted
    typeInfo,          \* per-type emitters: the ReflectedType parameter
    typeInfoMethods,   \* per-type emitters: the method bodies written to the file
    toolsBuild,        \* generated code: EE_DEVELOPMENT_TOOLS of the build compiling it
    pActualType,       \* generated code: the property values of the instance
    loadingStatus,     \* generated code: return value of GetResourceLoadingStatus
    arrayCall,         \* generated code: the last array accessor call and what it ran
    m_status,          \* generated code: EntityComponent::m_status of the component
    componentCalls,    \* generated code: Load / Unload / UpdateLoading calls received
    resourceCalls,     \* generated code: LoadResources / UnloadResources calls made
    resourceLoadingStatus \* what GetResourceLoadingStatus( this ) answers at present

vars == << projects, types, resourceTypes, dataFileTypes, m_generatedFiles, m_errorMessage, pc, prjIdx, hdrIdx,
           prjFilesBefore, prjResults, lastHeader, solutionResult,
           structureTypes, sortBefore, sortReturn, m_enumConstants, enumConstantInfos,
           typeInfo, typeInfoMethods, toolsBuild, pActualType, loadingStatus,
           arrayCall, m_status, componentCalls, resourceCalls, resourceLoadingStatus >>

dbVars == << projects, types, resourceTypes, dataFileTypes >>
sortVars == << structureTypes, sortBefore, sortReturn >>
enumVars == << m_enumConstants, enumConstantInfos >>
componentVars == << m_status, componentCalls, resourceCalls, resourceLoadingStatus >>
rtVars == << typeInfo, typeInfoMethods, toolsBuild, pActualType, loadingStatus, arrayCall,
             componentVars >>
genVars == << m_generatedFiles, m_errorMessage, pc, prjIdx, hdrIdx,
              prjFilesBefore, prjResults, lastHeader, solutionResult >>

----------------------------------------------------------------------------
(* Bounds *)

MaxSortTypes == 4
MaxTypes == 2
MaxProjects == 2
MaxDependencyCount == 1
MaxResourceTypes == 3
MaxParents == 2
MaxDataFileTypes == 2
MaxConstants == 3
MaxLabelLength == 2

----------------------------------------------------------------------------
(* Identities *)

\* TypeID / HeaderID: the default-constructed identity is not IsValid()
InvalidID == 0
\* a type outside every generated project that the database resolves
RootID == InvalidID + 1
\* a valid identity that no type of the database has
MissingID == RootID + 1
IDStride == MaxTypes + MissingID + 1

IsValid(id) == id # InvalidID

ModuleHeaderIDOf(p) == p * IDStride
HeaderIDOf(p, k) == p * IDStride + k
TypeIDOf(p, k) == p * IDStride + k

Range(s) == { s[i] : i \in 1..Len(s) }

Reverse(s) == [ i \in 1..Len(s) |-> s[Len(s) + 1 - i] ]

RECURSIVE Flatten(_)
Flatten(ss) == IF Len(ss) = 0 THEN << >> ELSE Head(ss) \o Flatten(Tail(ss))

----------------------------------------------------------------------------
(* Topological sorter (Base/Utils/TopologicalSort.h), from section 4.1:    *)
(* node i holds references to its child nodes; the result is a permutation *)
(* in which every node appears before all its children, or failure when    *)
(* the child edges contain a cycle.  The tie-break is unspecified, so the   *)
(* sorter yields any permutation that satisfies the contract.              *)

RECURSIVE NodeOrdersOf(_)
NodeOrdersOf(S) ==
    IF S = {} THEN { << >> }
    ELSE UNION { { << x >> \o o : o \in NodeOrdersOf(S \ {x}) } : x \in S }

PositionOf(o, node) == CHOOSE k \in 1..Len(o) : o[k] = node

RECURSIVE ReachableIn(_, _, _, _)
ReachableIn(children, from, to, steps) ==
    IF steps = 0 THEN FALSE
    ELSE \E c \in children[from] : c = to \/ ReachableIn(children, c, to, steps - 1)

GraphHasCycle(children) ==
    LET n == Len(children)
    IN  \E i \in 1..n : ReachableIn(children, i, i, n)

TopologicalSorter_Orders(children) ==
    LET n == Len(children)
    IN  { o \in NodeOrdersOf(1..n) :
            \A i \in 1..n : \A c \in children[i] : PositionOf(o, i) < PositionOf(o, c) }

----------------------------------------------------------------------------
(* SortTypesByDependencies, CodeGenerator.cpp 13-56 *)

\* lines 28-37: list[i].m_children gets the node of every j # i whose m_ID is
\* the m_parentID of type i
SortNodeChildren(st) ==
    [ i \in 1..Len(st) |->
        { j \in 1..Len(st) : i # j /\ st[j].m_ID = st[i].m_parentID } ]

\* SortedTypes with the slip of indexing by the loop counter's first node
SortedTypes_FirstNode(st, order) == [ k \in 1..Len(st) |-> st[order[1]] ]

\* lines 46-53: the type list rebuilt in the order of the sorted nodes
SortedTypes(st, order) == [ k \in 1..Len(st) |-> st[order[k]] ]

\* the outcomes of one call: the return value and the list afterwards
SortTypesByDependencies(st) ==
    IF Len(st) <= 1
    THEN { [ ret |-> TRUE, list |-> st ] }
    ELSE IF GraphHasCycle(SortNodeChildren(st))
         THEN { [ ret |-> FALSE, list |-> st ] }
         ELSE { [ ret |-> TRUE, list |-> SortedTypes(st, o) ] :
                  o \in TopologicalSorter_Orders(SortNodeChildren(st)) }

----------------------------------------------------------------------------
(* Reflection database (ReflectionDatabase), read-only during generation *)

ProjectByID(p) == CHOOSE prj \in Range(projects) : prj.m_ID = p

\* m_pDatabase->GetAllTypesForHeader( header.m_ID, ... )
GetAllTypesForHeader(h) == SelectSeq(types, LAMBDA t : t.m_headerID = h)

\* m_pDatabase->GetAllTypesForProject( project.m_ID, ... )
GetAllTypesForProject(p) ==
    SelectSeq(types, LAMBDA t : t.m_headerID \in Range(ProjectByID(p).m_headerFiles))

\* m_pDatabase->GetType( id ) != nullptr
GetTypeFound(id) == \E i \in 1..Len(types) : types[i].m_ID = id

----------------------------------------------------------------------------
(* Generated files and diagnostics *)

NoError == [ kind |-> "None", name |-> InvalidID ]

EmptyContents ==
    [ includes |-> << >>, typeOrder |-> << >>,
      definitions |-> << >>, declarations |-> << >>,
      registerTypes |-> << >>, createDefaultInstances |-> << >>,
      unregisterTypes |-> << >>,
      resourceRegistrations |-> << >>, resourceUnregistrations |-> << >>,
      hasDataFileMethods |-> FALSE,
      dataFileRegistrations |-> << >>, dataFileUnregistrations |-> << >> ]

GeneratedFile(kind, id, contents) ==
    [ m_path |-> [ kind |-> kind, id |-> id ], m_contents |-> contents ]

Call(fn, arg) == [ fn |-> fn, arg |-> arg ]

\* ReflectedType::IsEnum(), IsAbstract(), IsEntityComponent()
IsEnum(t) == t.m_isEnum
IsAbstract(t) == t.m_isAbstract
IsEntityComponent(t) == t.m_isEntityComponent

\* one emitted item of type t (a block, a declaration, a definition or a
\* call); devOnly tells whether it stands inside the development-tools guard
\* (#if EE_DEVELOPMENT_TOOLS ... #endif or EE_DEVELOPMENT_TOOLS_ONLY( ... ))
Emit(fn, t, guarded) == [ fn |-> fn, arg |-> t.m_ID, devOnly |-> guarded ]

\* CodeGenerator::LogError, lines 68-79: overwrites the last-error message
LogError(kind, name) == [ kind |-> kind, name |-> name ]

----------------------------------------------------------------------------
(* GenerateTypeInfoFileForHeader, lines 565-667 *)

\* lines 587-608: the types of the header are visited in order.  An
\* enumeration is emitted without a check; a structure whose m_parentID is
\* not valid ends the call with LogError; a structure whose parent is not in
\* the database trips EE_ASSERT( pParentTypeInfo != nullptr ): the build
\* with assertions halts there, the build without dereferences the null
\* parent, which halts or carries on with an arbitrary parent.
\* HeaderOutcomes with the parent validation applied to enumerations too
RECURSIVE HeaderOutcomes_CheckEnums(_, _)
HeaderOutcomes_CheckEnums(ts, i) ==
    IF i > Len(ts) THEN { [ kind |-> "Ok", name |-> InvalidID ] }
    ELSE IF ~IsValid(ts[i].m_parentID)
         THEN { [ kind |-> "InvalidParent", name |-> ts[i].m_ID ] }
    ELSE IF ~GetTypeFound(ts[i].m_parentID)
         THEN { [ kind |-> "Halt", name |-> ts[i].m_ID ] }
              \cup HeaderOutcomes_CheckEnums(ts, i + 1)
    ELSE HeaderOutcomes_CheckEnums(ts, i + 1)

RECURSIVE HeaderOutcomes(_, _)
HeaderOutcomes(ts, i) ==
    IF i > Len(ts) THEN { [ kind |-> "Ok", name |-> InvalidID ] }
    ELSE IF ts[i].m_isEnum THEN HeaderOutcomes(ts, i + 1)
    ELSE IF ~IsValid(ts[i].m_parentID)
         THEN { [ kind |-> "InvalidParent", name |-> ts[i].m_ID ] }
    ELSE IF ~GetTypeFound(ts[i].m_parentID)
         THEN { [ kind |-> "Halt", name |-> ts[i].m_ID ] } \cup HeaderOutcomes(ts, i + 1)
    ELSE HeaderOutcomes(ts, i + 1)

TypeIDs(ts) == [ i \in 1..Len(ts) |-> ts[i].m_ID ]

\* lines 592-608 with 831-834/978-981 (enumeration) and 998-1001/1050-1053
\* (structure): the type-info block of the type
TypeInfoBlock(t) == << Emit("TypeInfo", t, t.m_isDevOnly) >>

\* lines 613-616 with 1072-1075/1157-1160: the entity component methods
ComponentCodegen(t) ==
    IF IsEntityComponent(t) THEN << Emit("Component", t, t.m_isDevOnly) >> ELSE << >>

\* lines 627-654: the definitions of the per-type free functions
TypeFunctionDefinitions(t) ==
       << Emit("RegisterType", t, t.m_isDevOnly) >>
    \o ( IF ~IsAbstract(t) /\ ~IsEnum(t)
         THEN << Emit("CreateDefaultInstance", t, t.m_isDevOnly) >> ELSE << >> )
    \o << Emit("UnregisterType", t, t.m_isDevOnly) >>

\* lines 587-657: the loop over the types of the header
TypeInfoDefinitions(ts) ==
    Flatten([ i \in 1..Len(ts) |->
                TypeInfoBlock(ts[i]) \o ComponentCodegen(ts[i])
                    \o TypeFunctionDefinitions(ts[i]) ])

TypeInfoFile(h, ts) ==
    GeneratedFile("TypeInfo", h,
        [ EmptyContents EXCEPT !.typeOrder = TypeIDs(ts),
                               !.definitions = TypeInfoDefinitions(ts) ])

----------------------------------------------------------------------------
(* GenerateProjectTypeInfoHeaderFile, lines 180-270, and                   *)
(* GenerateProjectTypeInfoSourceFile, lines 272-394                        *)

\* TypeFunctionDeclarations with CreateDefaultInstance declared for every type
TypeFunctionDeclarations_AlwaysCreate(t) ==
    << Emit("RegisterType", t, t.m_isDevOnly),
       Emit("CreateDefaultInstance", t, t.m_isDevOnly),
       Emit("UnregisterType", t, t.m_isDevOnly) >>

\* lines 219-246: the declarations of the per-type free functions
TypeFunctionDeclarations(t) ==
       << Emit("RegisterType", t, t.m_isDevOnly) >>
    \o ( IF ~IsAbstract(t) /\ ~IsEnum(t)
         THEN << Emit("CreateDefaultInstance", t, t.m_isDevOnly) >> ELSE << >> )
    \o << Emit("UnregisterType", t, t.m_isDevOnly) >>

ProjectHeaderFile(p, sorted) ==
    GeneratedFile("ProjectHeader", p,
        [ EmptyContents EXCEPT
            !.typeOrder = TypeIDs(sorted),
            !.declarations =
                Flatten([ i \in 1..Len(sorted) |-> TypeFunctionDeclarations(sorted[i]) ]) ])

\* lines 304-321
RegisterTypeCalls(sorted) ==
    [ i \in 1..Len(sorted) |-> Emit("RegisterType", sorted[i], sorted[i].m_isDevOnly) ]

\* CreateDefaultInstanceCalls with every call left outside the guard
CreateDefaultInstanceCalls_Unguarded(sorted) ==
    Flatten([ i \in 1..Len(sorted) |->
                IF IsAbstract(sorted[i]) \/ IsEnum(sorted[i]) THEN << >>
                ELSE << Emit("CreateDefaultInstance", sorted[i], FALSE) >> ])

\* lines 330-352
CreateDefaultInstanceCalls(sorted) ==
    Flatten([ i \in 1..Len(sorted) |->
                IF IsAbstract(sorted[i]) \/ IsEnum(sorted[i]) THEN << >>
                ELSE << Emit("CreateDefaultInstance", sorted[i], sorted[i].m_isDevOnly) >> ])

\* lines 362-379: the loop runs from rbegin() to rend()
UnregisterTypeCalls(sorted) ==
    [ i \in 1..Len(sorted) |->
        Emit("UnregisterType", Reverse(sorted)[i], Reverse(sorted)[i].m_isDevOnly) ]

ProjectSourceFile(p, sorted) ==
    GeneratedFile("ProjectSource", p,
        [ EmptyContents EXCEPT
            !.includes = << p >>,
            !.typeOrder = TypeIDs(sorted),
            !.registerTypes = RegisterTypeCalls(sorted),
            !.createDefaultInstances = CreateDefaultInstanceCalls(sorted),
            !.unregisterTypes = UnregisterTypeCalls(sorted) ])

----------------------------------------------------------------------------
(* GenerateResourceRegistrationMethods, lines 673-749, and                 *)
(* GenerateDataFileRegistrationMethods, lines 751-791                      *)

\* ResourceTypeID(): the default-constructed resource-kind code
InvalidResourceTypeID == 0

\* EE_UNREACHABLE_CODE() (Base), from section 7: reaching it is a fatal
\* invariant violation; the generator does not go on
UnreachableCode == [ kind |-> "Halt", code |-> InvalidResourceTypeID ]

\* GetResourceTypeIDForTypeID with the empty code handed back on a miss
GetResourceTypeIDForTypeID_EmptyOnMiss(table, typeID) ==
    LET hits == { i \in 1..Len(table) : table[i].m_typeID = typeID }
    IN  IF hits = {} THEN [ kind |-> "Ok", code |-> InvalidResourceTypeID ]
        ELSE [ kind |-> "Ok",
               code |-> table[CHOOSE i \in hits : \A j \in hits : i <= j].m_resourceTypeID ]

\* lines 688-700: the code of the first table entry with the type identity
GetResourceTypeIDForTypeID(table, typeID) ==
    LET hits == { i \in 1..Len(table) : table[i].m_typeID = typeID }
    IN  IF hits = {} THEN UnreachableCode
        ELSE [ kind |-> "Ok",
               code |-> table[CHOOSE i \in hits : \A j \in hits : i <= j].m_resourceTypeID ]

\* lines 704-707 and 736-739: the entries a mode leaves out
SkippedInMode(entry, mode) == mode = "Runtime" /\ entry.m_isDevOnly

\* lines 709-723: the registration of one entry, its parents in declared order
ResourceInfo(table, entry) ==
    [ m_typeID |-> entry.m_typeID,
      m_resourceTypeID |-> entry.m_resourceTypeID,
      m_parentTypes |->
          [ k \in 1..Len(entry.m_parents) |->
              GetResourceTypeIDForTypeID(table, entry.m_parents[k]).code ] ]

\* lines 702-724
ResourceRegistrations(table, mode) ==
    LET emitted == SelectSeq(table, LAMBDA e : ~SkippedInMode(e, mode))
    IN  [ i \in 1..Len(emitted) |-> ResourceInfo(table, emitted[i]) ]

\* the registration loop reaches a parent that no table entry has
ResourceLookupHalts(table, mode) ==
    \E i \in 1..Len(table) :
        /\ ~SkippedInMode(table[i], mode)
        /\ \E k \in 1..Len(table[i].m_parents) :
             GetResourceTypeIDForTypeID(table, table[i].m_parents[k]).kind = "Halt"

\* ResourceUnregistrations with the development-only entries kept in every mode
ResourceUnregistrations_AllModes(table, mode) ==
    [ i \in 1..Len(table) |-> Reverse(table)[i].m_resourceTypeID ]

\* lines 734-744
ResourceUnregistrations(table, mode) ==
    LET emitted == SelectSeq(Reverse(table), LAMBDA e : ~SkippedInMode(e, mode))
    IN  [ i \in 1..Len(emitted) |-> emitted[i].m_resourceTypeID ]

\* lines 766-773
DataFileRegistrations(table) == [ i \in 1..Len(table) |-> table[i].m_typeID ]

\* DataFileUnregistrations walking the table forwards
DataFileUnregistrations_Forward(table) == [ i \in 1..Len(table) |-> table[i].m_typeID ]

\* lines 783-786
DataFileUnregistrations(table) == [ i \in 1..Len(table) |-> Reverse(table)[i].m_typeID ]

----------------------------------------------------------------------------
(* GenerateSolutionTypeRegistrationFile, lines 396-563 *)

\* TVector::erase_unsorted: the last element takes the place of the erased one
EraseUnsorted(ps, i) ==
    [ k \in 1..(Len(ps) - 1) |-> IF k = i THEN ps[Len(ps)] ELSE ps[k] ]

\* lines 412-432: the loop re-examines index i after an erase (i--; continue)
\* SelectProjects with the index moving on after an erase
RECURSIVE SelectProjects_NoRecheck(_, _, _)
SelectProjects_NoRecheck(ps, i, mode) ==
    IF i > Len(ps) THEN ps
    ELSE IF mode = "Runtime" /\ ps[i].m_isToolsProject
         THEN SelectProjects_NoRecheck(EraseUnsorted(ps, i), i + 1, mode)
    ELSE IF ~IsValid(ps[i].m_moduleHeaderID)
         THEN SelectProjects_NoRecheck(EraseUnsorted(ps, i), i + 1, mode)
    ELSE SelectProjects_NoRecheck(ps, i + 1, mode)

RECURSIVE SelectProjects(_, _, _)
SelectProjects(ps, i, mode) ==
    IF i > Len(ps) THEN ps
    ELSE IF mode = "Runtime" /\ ps[i].m_isToolsProject
         THEN SelectProjects(EraseUnsorted(ps, i), i, mode)
    ELSE IF ~IsValid(ps[i].m_moduleHeaderID)
         THEN SelectProjects(EraseUnsorted(ps, i), i, mode)
    ELSE SelectProjects(ps, i + 1, mode)

\* lines 405-408
\* SortPredicate with the comparison turned round
SortPredicate_Descending(pA, pB) == pA.m_dependencyCount > pB.m_dependencyCount

SortPredicate(pA, pB) == pA.m_dependencyCount < pB.m_dependencyCount

\* eastl::sort, line 434: below its quick-sort limit it is an insertion sort;
\* the value moves down while the predicate holds against its predecessor
RECURSIVE InsertSorted(_, _)
InsertSorted(sorted, value) ==
    IF Len(sorted) = 0 THEN << value >>
    ELSE IF SortPredicate(value, sorted[Len(sorted)])
         THEN Append(InsertSorted(SubSeq(sorted, 1, Len(sorted) - 1), value),
                     sorted[Len(sorted)])
         ELSE Append(sorted, value)

RECURSIVE EastlSort(_)
EastlSort(ps) ==
    IF Len(ps) = 0 THEN << >>
    ELSE InsertSorted(EastlSort(SubSeq(ps, 1, Len(ps) - 1)), ps[Len(ps)])

\* lines 410-434
SortedProjects(mode) == EastlSort(SelectProjects(projects, 1, mode))

\* lines 458-461
ModuleIncludes(ps) == [ i \in 1..Len(ps) |-> ps[i].m_ID ]

\* RegisterTypesBody with each project's default instances created right
\* after its own registration
RegisterTypesBody_Interleaved(ps, mode) ==
       << Call("RegisterInternalTypes", InvalidID) >>
    \o Flatten([ i \in 1..Len(ps) |->
                   << Call("Module_RegisterTypes", ps[i].m_ID),
                      Call("Module_CreateDefaultInstances", ps[i].m_ID) >> ])
    \o << Call("RegisterResourceTypes", InvalidID) >>
    \o ( IF mode = "Tools" THEN << Call("RegisterDataFileTypes", InvalidID) >> ELSE << >> )

\* lines 487-515
RegisterTypesBody(ps, mode) ==
       << Call("RegisterInternalTypes", InvalidID) >>
    \o [ i \in 1..Len(ps) |-> Call("Module_RegisterTypes", ps[i].m_ID) ]
    \o [ i \in 1..Len(ps) |-> Call("Module_CreateDefaultInstances", ps[i].m_ID) ]
    \o << Call("RegisterResourceTypes", InvalidID) >>
    \o ( IF mode = "Tools" THEN << Call("RegisterDataFileTypes", InvalidID) >> ELSE << >> )

\* UnregisterTypesBody with the projects walked forwards
UnregisterTypesBody_Forward(ps, mode) ==
       [ i \in 1..Len(ps) |-> Call("Module_UnregisterTypes", ps[i].m_ID) ]
    \o << Call("UnregisterResourceTypes", InvalidID) >>
    \o ( IF mode = "Tools" THEN << Call("UnregisterDataFileTypes", InvalidID) >> ELSE << >> )
    \o << Call("UnregisterInternalTypes", InvalidID) >>

\* lines 520-540
UnregisterTypesBody(ps, mode) ==
       [ i \in 1..Len(ps) |-> Call("Module_UnregisterTypes", Reverse(ps)[i].m_ID) ]
    \o << Call("UnregisterResourceTypes", InvalidID) >>
    \o ( IF mode = "Tools" THEN << Call("UnregisterDataFileTypes", InvalidID) >> ELSE << >> )
    \o << Call("UnregisterInternalTypes", InvalidID) >>

\* lines 550-560
SolutionTypeRegistrationFile(mode) ==
    LET ps == SortedProjects(mode)
    IN  GeneratedFile(mode, InvalidID,
            [ EmptyContents EXCEPT
                !.includes = ModuleIncludes(ps),
                !.resourceRegistrations = ResourceRegistrations(resourceTypes, mode),
                !.resourceUnregistrations = ResourceUnregistrations(resourceTypes, mode),
                !.hasDataFileMethods = (mode = "Tools"),
                !.dataFileRegistrations =
                    IF mode = "Tools" THEN DataFileRegistrations(dataFileTypes) ELSE << >>,
                !.dataFileUnregistrations =
                    IF mode = "Tools" THEN DataFileUnregistrations(dataFileTypes) ELSE << >>,
                !.registerTypes = RegisterTypesBody(ps, mode),
                !.unregisterTypes = UnregisterTypesBody(ps, mode) ])

----------------------------------------------------------------------------
(* GenerateEnumTypeInfo, lines 797-911 *)

\* String::operator<, from section 4.3: labels compare lexicographically,
\* character by character, a proper prefix before its extensions
RECURSIVE LexLess(_, _)
LexLess(a, b) ==
    IF Len(b) = 0 THEN FALSE
    ELSE IF Len(a) = 0 THEN TRUE
    ELSE IF Head(a) # Head(b) THEN Head(a) < Head(b)
    ELSE LexLess(Tail(a), Tail(b))

\* lines 809-814: a and b are indices into the constants, counted from 0
Comparator(constants, a, b) == LexLess(constants[a + 1].m_label, constants[b + 1].m_label)

\* eastl::sort, line 816, on the indices: below its quick-sort limit it is an
\* insertion sort
RECURSIVE InsertSortedIndex(_, _, _)
InsertSortedIndex(constants, sorted, value) ==
    IF Len(sorted) = 0 THEN << value >>
    ELSE IF Comparator(constants, value, sorted[Len(sorted)])
         THEN Append(InsertSortedIndex(constants, SubSeq(sorted, 1, Len(sorted) - 1), value),
                     sorted[Len(sorted)])
         ELSE Append(sorted, value)

RECURSIVE EastlSortIndices(_, _)
EastlSortIndices(constants, indices) ==
    IF Len(indices) = 0 THEN << >>
    ELSE InsertSortedIndex(constants,
                           EastlSortIndices(constants, SubSeq(indices, 1, Len(indices) - 1)),
                           indices[Len(indices)])

\* lines 804-816: the indices 0..n-1, sorted by the label they stand for
SortingConstantIndices(constants) ==
    EastlSortIndices(constants, [ i \in 1..Len(constants) |-> i - 1 ])

\* SortedOrder with the sorted index list taken for the order itself
SortedOrder_NotInverted(constants) ==
    [ c \in 0..(Len(constants) - 1) |-> SortingConstantIndices(constants)[c + 1] ]

\* lines 818-823: sortedOrder[sortingConstantIndices[i]] = i
SortedOrder(constants) ==
    LET sorting == SortingConstantIndices(constants)
    IN  [ c \in 0..(Len(constants) - 1) |->
            (CHOOSE i \in 1..Len(sorting) : sorting[i] = c) - 1 ]

\* lines 895-906: one constantInfo per constant, in declaration order
EnumConstantInfos(constants) ==
    [ i \in 1..Len(constants) |->
        [ m_ID |-> constants[i].m_label,
          m_value |-> constants[i].m_value,
          m_alphabeticalOrder |-> SortedOrder(constants)[i - 1] ] ]

----------------------------------------------------------------------------
(* Initial states *)

RootType ==
    [ m_ID |-> RootID, m_parentID |-> InvalidID, m_headerID |-> InvalidID, m_isEnum |-> FALSE,
      m_isAbstract |-> FALSE, m_isDevOnly |-> FALSE, m_isEntityComponent |-> FALSE ]

StructType(id, parent, header) ==
    [ m_ID |-> id, m_parentID |-> parent, m_headerID |-> header, m_isEnum |-> FALSE,
      m_isAbstract |-> FALSE, m_isDevOnly |-> FALSE, m_isEntityComponent |-> FALSE ]

EnumType(id, header) ==
    [ m_ID |-> id, m_parentID |-> InvalidID, m_headerID |-> header, m_isEnum |-> TRUE,
      m_isAbstract |-> FALSE, m_isDevOnly |-> FALSE, m_isEntityComponent |-> FALSE ]

Project(p, moduleHeader, tools, deps, headers) ==
    [ m_ID |-> p, m_moduleHeaderID |-> moduleHeader, m_isToolsProject |-> tools,
      m_dependencyCount |-> deps, m_headerFiles |-> headers ]

NoResources ==
    /\ resourceTypes = << >>
    /\ dataFileTypes = << >>

GenInit(start) ==
    /\ m_generatedFiles = << >>
    /\ m_errorMessage = NoError
    /\ pc = start
    /\ prjIdx = 0
    /\ hdrIdx = 0
    /\ prjFilesBefore = 0
    /\ prjResults = << >>
    /\ lastHeader = [ id |-> InvalidID, ret |-> TRUE, filesBefore |-> 0 ]
    /\ solutionResult = FALSE

EnumIdle ==
    /\ m_enumConstants = << >>
    /\ enumConstantInfos = << >>

NoArrayCall == arrayCall = [ method |-> "None", arrayID |-> 0, ran |-> << >> ]

ComponentIdle ==
    /\ m_status = "Unloaded"
    /\ componentCalls = << >>
    /\ resourceCalls = << >>
    /\ resourceLoadingStatus = "Loaded"

RtIdle ==
    /\ typeInfo = [ m_properties |-> << >> ]
    /\ typeInfoMethods = << >>
    /\ toolsBuild = FALSE
    /\ pActualType = << >>
    /\ loadingStatus = "None"
    /\ NoArrayCall
    /\ ComponentIdle

SortIdle ==
    /\ structureTypes = << >>
    /\ sortBefore = << >>
    /\ sortReturn = FALSE

\* every list of up to max types with distinct identities; the parent of a
\* type is invalid, outside the list, or any type of the list (itself
\* included)
SortTypeLists(max) ==
    UNION { { [ i \in 1..n |-> StructType(TypeIDOf(1, i), par[i], HeaderIDOf(1, 1)) ] :
                par \in [ 1..n -> {InvalidID, RootID} \cup { TypeIDOf(1, j) : j \in 1..n } ] } :
            n \in 0..max }

InitSort ==
    /\ RtIdle
    /\ projects = << >>
    /\ types = << >>
    /\ NoResources
    /\ GenInit("Sort")
    /\ structureTypes \in SortTypeLists(MaxSortTypes)
    /\ sortBefore = structureTypes
    /\ sortReturn = FALSE
    /\ EnumIdle

\* the types one project of n types can hold at position k: an enumeration, or
\* a structure whose parent is invalid, the root, missing from the database,
\* or a type of the project; each in one of the two headers of the project
ProjectTypeChoices(p, n, k) ==
    { StructType(TypeIDOf(p, k), par, h) :
        par \in {InvalidID, RootID, MissingID} \cup { TypeIDOf(p, j) : j \in 1..n },
        h \in { HeaderIDOf(p, 1), HeaderIDOf(p, 2) } }
    \cup { EnumType(TypeIDOf(p, k), h) : h \in { HeaderIDOf(p, 1), HeaderIDOf(p, 2) } }

ProjectTypeLists(p) ==
    UNION { { ts \in [ 1..n -> UNION { ProjectTypeChoices(p, n, k) : k \in 1..n } ] :
                \A k \in 1..n : ts[k] \in ProjectTypeChoices(p, n, k) } :
            n \in 0..MaxTypes }

InitProject ==
    /\ RtIdle
    /\ \E mod \in BOOLEAN :
         projects =
           << IF mod
              THEN Project(1, ModuleHeaderIDOf(1), FALSE, 0,
                           << HeaderIDOf(1, 1), ModuleHeaderIDOf(1), HeaderIDOf(1, 2) >>)
              ELSE Project(1, InvalidID, FALSE, 0, << HeaderIDOf(1, 1), HeaderIDOf(1, 2) >>) >>
    /\ \E ts \in ProjectTypeLists(1) : types = << RootType >> \o ts
    /\ NoResources
    /\ GenInit("Idle")
    /\ SortIdle
    /\ EnumIdle

\* the types one project of n types can hold at position k when the flags of
\* the types vary: an enumeration, development-only or not, or a structure
\* that derives from the root or from another type of the project and is
\* abstract or not, development-only or not; the types alternate between the
\* two headers of the project, and the structures of the second header are
\* entity components
FlaggedTypeChoices(p, n, k) ==
    LET h == HeaderIDOf(p, 1 + (k % 2))
        cmp == (h = HeaderIDOf(p, 2))
    IN  { [ EnumType(TypeIDOf(p, k), h) EXCEPT !.m_isDevOnly = dev ] : dev \in BOOLEAN }
        \cup { [ StructType(TypeIDOf(p, k), par, h) EXCEPT
                    !.m_isAbstract = abs, !.m_isDevOnly = dev, !.m_isEntityComponent = cmp ] :
                  par \in {RootID} \cup { TypeIDOf(p, j) : j \in (1..n) \ {k} },
                  abs \in BOOLEAN, dev \in BOOLEAN }

FlaggedTypeLists(p) ==
    UNION { { ts \in [ 1..n -> UNION { FlaggedTypeChoices(p, n, k) : k \in 1..n } ] :
                \A k \in 1..n : ts[k] \in FlaggedTypeChoices(p, n, k) } :
            n \in 0..MaxTypes }

InitTypes ==
    /\ RtIdle
    /\ \E mod \in BOOLEAN, tools \in BOOLEAN :
         projects =
           << IF mod
              THEN Project(1, ModuleHeaderIDOf(1), tools, 0,
                           << HeaderIDOf(1, 1), ModuleHeaderIDOf(1), HeaderIDOf(1, 2) >>)
              ELSE Project(1, InvalidID, tools, 0, << HeaderIDOf(1, 1), HeaderIDOf(1, 2) >>) >>
    /\ \E ts \in FlaggedTypeLists(1) : types = << RootType >> \o ts
    /\ NoResources
    /\ GenInit("Idle")
    /\ SortIdle
    /\ EnumIdle

\* the type layouts a project of a multi-project database is given
Layouts == { "Empty", "Good", "Cycle", "BadParent" }

LayoutTypes(p, layout) ==
    CASE layout = "Empty" -> << >>
      [] layout = "Good" -> << StructType(TypeIDOf(p, 1), RootID, HeaderIDOf(p, 1)),
                               EnumType(TypeIDOf(p, 2), HeaderIDOf(p, 1)) >>
      [] layout = "Cycle" -> << StructType(TypeIDOf(p, 1), TypeIDOf(p, 2), HeaderIDOf(p, 1)),
                                StructType(TypeIDOf(p, 2), TypeIDOf(p, 1), HeaderIDOf(p, 1)) >>
      [] layout = "BadParent" -> << StructType(TypeIDOf(p, 1), InvalidID, HeaderIDOf(p, 1)) >>

\* the projects a multi-project database can hold at position p, each with
\* its types: a project without module header (no file is generated for it,
\* so it is given no types), or a project with module header, any dependency
\* count and any layout; either kind is a tools project or not
SolutionProjects(p) ==
    { [ prj |-> Project(p, InvalidID, tools, 0, << HeaderIDOf(p, 1) >>), ts |-> << >> ] :
        tools \in BOOLEAN }
    \cup { [ prj |-> Project(p, ModuleHeaderIDOf(p), tools, deps,
                             << ModuleHeaderIDOf(p), HeaderIDOf(p, 1) >>),
             ts |-> LayoutTypes(p, layout) ] :
             tools \in BOOLEAN, deps \in 0..MaxDependencyCount, layout \in Layouts }

InitSolution ==
    /\ RtIdle
    /\ \E n \in 1..MaxProjects :
       \E db \in [ 1..n -> UNION { SolutionProjects(p) : p \in 1..n } ] :
            /\ \A p \in 1..n : db[p] \in SolutionProjects(p)
            /\ projects = [ p \in 1..n |-> db[p].prj ]
            /\ types = << RootType >> \o Flatten([ p \in 1..n |-> db[p].ts ])
    /\ NoResources
    /\ GenInit("Idle")
    /\ SortIdle
    /\ EnumIdle

\* sequences without repetition of up to n elements of S
RECURSIVE DistinctSeqs(_, _)
DistinctSeqs(S, n) ==
    IF n = 0 THEN { << >> }
    ELSE { << >> } \cup UNION { { << x >> \o q : q \in DistinctSeqs(S \ {x}, n - 1) } : x \in S }

ResourceTypeOf(k) == MissingID + k

DataFileTypeOf(k) == MissingID + MaxResourceTypes + k

ResourceType(k, dev, parents) ==
    [ m_typeID |-> ResourceTypeOf(k), m_resourceTypeID |-> InvalidResourceTypeID + k,
      m_isDevOnly |-> dev, m_parents |-> parents ]

\* the entries a table of n resource types can hold at position k: the
\* parents of an entry are other entries of the table or a type that is no
\* resource type, up to MaxParents of them
ParentChoices(n, k) ==
    DistinctSeqs(({MissingID} \cup { ResourceTypeOf(j) : j \in 1..n }) \ {ResourceTypeOf(k)},
                 MaxParents)

\* the tables of n entries, built up to entry k
RECURSIVE ResourceTablesUpTo(_, _)
ResourceTablesUpTo(n, k) ==
    IF k = 0 THEN { << >> }
    ELSE { Append(t, ResourceType(k, dev, q)) :
             t \in ResourceTablesUpTo(n, k - 1), dev \in BOOLEAN, q \in ParentChoices(n, k) }

\* the tables of n entries in which entry h alone may have parents
ResourceTablesWithHolder(n, h) ==
    { [ k \in 1..n |-> ResourceType(k, dev[k], IF k = h THEN q ELSE << >>) ] :
        dev \in [ 1..n -> BOOLEAN ], q \in ParentChoices(n, h) }

\* the tables of resource types with distinct identities and codes: every
\* table of fewer than max entries, and the tables of max entries in which at
\* most one entry has parents
ResourceTables(max) ==
    UNION { ResourceTablesUpTo(n, n) : n \in 0..(max - 1) }
    \cup UNION { ResourceTablesWithHolder(max, h) : h \in 1..max }

DataFileTables ==
    { [ k \in 1..n |-> [ m_typeID |-> DataFileTypeOf(k) ] ] : n \in 0..MaxDataFileTypes }

\* a project without module header ahead of a project with one header of one
\* type, and every resource-type and data-file-type table
InitResources ==
    /\ RtIdle
    /\ projects = << Project(1, InvalidID, FALSE, 0, << HeaderIDOf(1, 1) >>),
                     Project(2, ModuleHeaderIDOf(2), FALSE, 0,
                             << ModuleHeaderIDOf(2), HeaderIDOf(2, 1) >>) >>
    /\ types = << RootType, StructType(TypeIDOf(2, 1), RootID, HeaderIDOf(2, 1)) >>
    /\ resourceTypes \in ResourceTables(MaxResourceTypes)
    /\ dataFileTypes \in DataFileTables
    /\ GenInit("Idle")
    /\ SortIdle
    /\ EnumIdle

\* the characters of a label, by character code
Letters == { 1, 2 }

RECURSIVE LabelsOfLength(_)
LabelsOfLength(n) ==
    IF n = 0 THEN { << >> }
    ELSE { << c >> \o l : c \in Letters, l \in LabelsOfLength(n - 1) }

Labels == UNION { LabelsOfLength(n) : n \in 1..MaxLabelLength }

\* every enumeration of up to MaxConstants constants; constant i has the
\* value i, and labels may repeat
InitEnum ==
    /\ RtIdle
    /\ projects = << >>
    /\ types = << >>
    /\ NoResources
    /\ GenInit("Enum")
    /\ SortIdle
    /\ \E n \in 0..MaxConstants : \E labels \in [ 1..n -> Labels ] :
         m_enumConstants = [ i \in 1..n |-> [ m_label |-> labels[i], m_value |-> i ] ]
    /\ enumConstantInfos = << >>

----------------------------------------------------------------------------
(* One call of GenerateEnumTypeInfo *)

GenerateEnumTypeInfo ==
    /\ pc = "Enum"
    /\ enumConstantInfos' = EnumConstantInfos(m_enumConstants)
    /\ pc' = "EnumDone"
    /\ UNCHANGED << dbVars, sortVars, rtVars, m_enumConstants, m_generatedFiles, m_errorMessage,
                    prjIdx, hdrIdx, prjFilesBefore, prjResults, lastHeader, solutionResult >>

NextEnum == GenerateEnumTypeInfo

----------------------------------------------------------------------------
(* One call of SortTypesByDependencies *)

SortCall ==
    /\ pc = "Sort"
    /\ \E r \in SortTypesByDependencies(structureTypes) :
         /\ structureTypes' = r.list
         /\ sortReturn' = r.ret
    /\ pc' = "SortDone"
    /\ UNCHANGED << dbVars, enumVars, rtVars, sortBefore, m_generatedFiles, m_errorMessage, prjIdx, hdrIdx,
                    prjFilesBefore, prjResults, lastHeader, solutionResult >>

----------------------------------------------------------------------------
(* GenerateCodeForSolution, lines 97-129 *)

CurrentProject == projects[prjIdx]
CurrentHeader == CurrentProject.m_headerFiles[hdrIdx]

\* entry: the loop of line 102 starts at the first project
BeginSolution ==
    /\ pc = "Idle"
    /\ pc' = "ProjectLoop"
    /\ prjIdx' = 1
    /\ UNCHANGED << dbVars, sortVars, enumVars, rtVars, m_generatedFiles, m_errorMessage, hdrIdx,
                    prjFilesBefore, prjResults, lastHeader, solutionResult >>

\* lines 105-108: a project without module header is skipped
SkipModuleLessProject ==
    /\ pc = "ProjectLoop"
    /\ prjIdx <= Len(projects)
    /\ ~IsValid(CurrentProject.m_moduleHeaderID)
    /\ prjIdx' = prjIdx + 1
    /\ UNCHANGED << dbVars, sortVars, enumVars, rtVars, m_generatedFiles, m_errorMessage, pc, hdrIdx,
                    prjFilesBefore, prjResults, lastHeader, solutionResult >>

\* line 110: GenerateCodeForProject( prj ) is entered
EnterProject ==
    /\ pc = "ProjectLoop"
    /\ prjIdx <= Len(projects)
    /\ IsValid(CurrentProject.m_moduleHeaderID)
    /\ pc' = "Headers"
    /\ hdrIdx' = 1
    /\ prjFilesBefore' = Len(m_generatedFiles)
    /\ UNCHANGED << dbVars, sortVars, enumVars, rtVars, m_generatedFiles, m_errorMessage, prjIdx,
                    prjResults, lastHeader, solutionResult >>

\* lines 146-153: the module header and a header without types are skipped
SkipHeader ==
    /\ pc = "Headers"
    /\ hdrIdx <= Len(CurrentProject.m_headerFiles)
    /\ \/ CurrentHeader = CurrentProject.m_moduleHeaderID
       \/ Len(GetAllTypesForHeader(CurrentHeader)) = 0
    /\ hdrIdx' = hdrIdx + 1
    /\ UNCHANGED << dbVars, sortVars, enumVars, rtVars, m_generatedFiles, m_errorMessage, pc, prjIdx,
                    prjFilesBefore, prjResults, lastHeader, solutionResult >>

\* lines 157-160 with 565-667: the type-info file of one header; a failure
\* makes GenerateCodeForProject return false at once
GenerateTypeInfoFileForHeader ==
    /\ pc = "Headers"
    /\ hdrIdx <= Len(CurrentProject.m_headerFiles)
    /\ CurrentHeader # CurrentProject.m_moduleHeaderID
    /\ Len(GetAllTypesForHeader(CurrentHeader)) > 0
    /\ LET ts == GetAllTypesForHeader(CurrentHeader)
       IN  \E out \in HeaderOutcomes(ts, 1) :
             CASE out.kind = "Ok" ->
                    /\ m_generatedFiles' = Append(m_generatedFiles, TypeInfoFile(CurrentHeader, ts))
                    /\ lastHeader' = [ id |-> CurrentHeader, ret |-> TRUE,
                                       filesBefore |-> Len(m_generatedFiles) ]
                    /\ hdrIdx' = hdrIdx + 1
                    /\ UNCHANGED << m_errorMessage, pc, prjResults >>
               [] out.kind = "InvalidParent" ->
                    /\ m_errorMessage' = LogError("InvalidParent", out.name)
                    /\ lastHeader' = [ id |-> CurrentHeader, ret |-> FALSE,
                                       filesBefore |-> Len(m_generatedFiles) ]
                    /\ prjResults' = Append(prjResults, FALSE)
                    /\ pc' = "ProjectReturned"
                    /\ UNCHANGED << m_generatedFiles, hdrIdx >>
               [] out.kind = "Halt" ->
                    /\ pc' = "Halted"
                    /\ UNCHANGED << m_generatedFiles, m_errorMessage, hdrIdx, prjResults,
                                    lastHeader >>
    /\ UNCHANGED << dbVars, sortVars, enumVars, rtVars, prjIdx, prjFilesBefore, solutionResult >>

\* line 162: the header loop is over
HeadersDone ==
    /\ pc = "Headers"
    /\ hdrIdx > Len(CurrentProject.m_headerFiles)
    /\ pc' = "ProjectHeader"
    /\ UNCHANGED << dbVars, sortVars, enumVars, rtVars, m_generatedFiles, m_errorMessage, prjIdx, hdrIdx,
                    prjFilesBefore, prjResults, lastHeader, solutionResult >>

\* lines 167-170 with 180-270
GenerateProjectTypeInfoHeaderFile ==
    /\ pc = "ProjectHeader"
    /\ \E r \in SortTypesByDependencies(GetAllTypesForProject(CurrentProject.m_ID)) :
         IF r.ret
         THEN /\ m_generatedFiles' =
                   Append(m_generatedFiles, ProjectHeaderFile(CurrentProject.m_ID, r.list))
              /\ pc' = "ProjectSource"
              /\ UNCHANGED << m_errorMessage, prjResults >>
         ELSE /\ m_errorMessage' = LogError("CyclicDependency", CurrentProject.m_ID)
              /\ prjResults' = Append(prjResults, FALSE)
              /\ pc' = "ProjectReturned"
              /\ UNCHANGED m_generatedFiles
    /\ UNCHANGED << dbVars, sortVars, enumVars, rtVars, prjIdx, hdrIdx, prjFilesBefore, lastHeader,
                    solutionResult >>

\* GenerateProjectTypeInfoSourceFile writing its file over the last entry of
\* the list
GenerateProjectTypeInfoSourceFile_Overwrite ==
    /\ pc = "ProjectSource"
    /\ \E r \in SortTypesByDependencies(GetAllTypesForProject(CurrentProject.m_ID)) :
         IF r.ret
         THEN /\ m_generatedFiles' =
                   [ m_generatedFiles EXCEPT
                       ![Len(m_generatedFiles)] = ProjectSourceFile(CurrentProject.m_ID, r.list) ]
              /\ prjResults' = Append(prjResults, TRUE)
              /\ UNCHANGED m_errorMessage
         ELSE /\ m_errorMessage' = LogError("CyclicDependency", CurrentProject.m_ID)
              /\ prjResults' = Append(prjResults, FALSE)
              /\ UNCHANGED m_generatedFiles
    /\ pc' = "ProjectReturned"
    /\ UNCHANGED << dbVars, sortVars, enumVars, rtVars, prjIdx, hdrIdx, prjFilesBefore, lastHeader,
                    solutionResult >>

\* lines 172-177 with 272-394
GenerateProjectTypeInfoSourceFile ==
    /\ pc = "ProjectSource"
    /\ \E r \in SortTypesByDependencies(GetAllTypesForProject(CurrentProject.m_ID)) :
         IF r.ret
         THEN /\ m_generatedFiles' =
                   Append(m_generatedFiles, ProjectSourceFile(CurrentProject.m_ID, r.list))
              /\ prjResults' = Append(prjResults, TRUE)
              /\ UNCHANGED m_errorMessage
         ELSE /\ m_errorMessage' = LogError("CyclicDependency", CurrentProject.m_ID)
              /\ prjResults' = Append(prjResults, FALSE)
              /\ UNCHANGED m_generatedFiles
    /\ pc' = "ProjectReturned"
    /\ UNCHANGED << dbVars, sortVars, enumVars, rtVars, prjIdx, hdrIdx, prjFilesBefore, lastHeader,
                    solutionResult >>

\* line 110: the result of GenerateCodeForProject is not looked at; the loop
\* goes on to the next project
ProjectReturn ==
    /\ pc = "ProjectReturned"
    /\ pc' = "ProjectLoop"
    /\ prjIdx' = prjIdx + 1
    /\ UNCHANGED << dbVars, sortVars, enumVars, rtVars, m_generatedFiles, m_errorMessage, hdrIdx,
                    prjFilesBefore, prjResults, lastHeader, solutionResult >>

\* lines 116-119 with 396-563: the runtime aggregate; the call returns true
\* unless the resource registration reaches the unreachable-code marker
GenerateRuntimeTypeRegistrationFile ==
    /\ pc = "ProjectLoop"
    /\ prjIdx > Len(projects)
    /\ IF ResourceLookupHalts(resourceTypes, "Runtime")
       THEN /\ pc' = "Halted"
            /\ UNCHANGED m_generatedFiles
       ELSE /\ m_generatedFiles' =
                 Append(m_generatedFiles, SolutionTypeRegistrationFile("Runtime"))
            /\ pc' = "Tools"
    /\ UNCHANGED << dbVars, sortVars, enumVars, rtVars, m_errorMessage, prjIdx, hdrIdx, prjFilesBefore,
                    prjResults, lastHeader, solutionResult >>

\* lines 121-128: the tooling aggregate, then return true
GenerateToolsTypeRegistrationFile ==
    /\ pc = "Tools"
    /\ IF ResourceLookupHalts(resourceTypes, "Tools")
       THEN /\ pc' = "Halted"
            /\ UNCHANGED << m_generatedFiles, solutionResult >>
       ELSE /\ m_generatedFiles' =
                 Append(m_generatedFiles, SolutionTypeRegistrationFile("Tools"))
            /\ pc' = "Done"
            /\ solutionResult' = TRUE
    /\ UNCHANGED << dbVars, sortVars, enumVars, rtVars, m_errorMessage, prjIdx, hdrIdx, prjFilesBefore,
                    prjResults, lastHeader >>

NextSort == SortCall

Next ==
    \/ BeginSolution
    \/ SkipModuleLessProject
    \/ EnterProject
    \/ SkipHeader
    \/ GenerateTypeInfoFileForHeader
    \/ HeadersDone
    \/ GenerateProjectTypeInfoHeaderFile
    \/ GenerateProjectTypeInfoSourceFile
    \/ ProjectReturn
    \/ GenerateRuntimeTypeRegistrationFile
    \/ GenerateToolsTypeRegistrationFile

SpecSort == InitSort /\ [][NextSort]_vars
SpecProject == InitProject /\ [][Next]_vars
SpecSolution == InitSolution /\ [][Next]_vars
SpecTypes == InitTypes /\ [][Next]_vars
SpecResources == InitResources /\ [][Next]_vars
SpecEnum == InitEnum /\ [][NextEnum]_vars

----------------------------------------------------------------------------
(* Properties of SortTypesByDependencies (SpecSort) *)

IndexOfType(st, id) == CHOOSE k \in 1..Len(st) : st[k].m_ID = id

HasType(st, id) == \E k \in 1..Len(st) : st[k].m_ID = id

\* the identity reached from id by following k parent references inside st
RECURSIVE AncestorOf(_, _, _)
AncestorOf(st, id, k) ==
    IF k = 0 THEN id
    ELSE IF ~HasType(st, id) THEN InvalidID
    ELSE AncestorOf(st, st[IndexOfType(st, id)].m_parentID, k - 1)

\* some type of st is its own ancestor after k >= 1 parent references
ParentCycleOfLength(st, k) ==
    \E i \in 1..Len(st) : AncestorOf(st, st[i].m_ID, k) = st[i].m_ID

ParentGraphCyclic(st) == \E k \in 1..Len(st) : ParentCycleOfLength(st, k)

ParentAfterChild(st) ==
    \E a, b \in 1..Len(st) : a < b /\ st[a].m_parentID = st[b].m_ID

IsPermutationOf(after, before) ==
    /\ Len(after) = Len(before)
    /\ \A i \in 1..Len(before) :
         Cardinality({ k \in 1..Len(after) : after[k] = before[i] }) = 1

\* C1: for every type list whose parent references are acyclic the call
\* returns true and every type whose parent is in the list stands after
\* that parent
C1_ParentBeforeChild ==
    (pc = "SortDone" /\ ~ParentGraphCyclic(sortBefore))
        => (sortReturn /\ ~ParentAfterChild(structureTypes))

\* C2: whenever the call returns true the list afterwards is a permutation of
\* the list before (same length, every input type exactly once); a list of
\* 0 or 1 types comes back unchanged with result true
C2_SortIsPermutation ==
    /\ (pc = "SortDone" /\ sortReturn) => IsPermutationOf(structureTypes, sortBefore)
    /\ (pc = "SortDone" /\ Len(sortBefore) <= 1)
          => (sortReturn /\ structureTypes = sortBefore)

\* C2 witness: a call on three or more types that returned true and moved a type
C2_Witness ==
    /\ pc = "SortDone"
    /\ sortReturn
    /\ Len(sortBefore) >= 3
    /\ structureTypes # sortBefore

\* C3: for every type list whose parent references contain a cycle of any
\* length (a type naming itself as parent included) the call returns false
\* and leaves the list as it was
C3_CycleRejected ==
    (pc = "SortDone" /\ ParentGraphCyclic(sortBefore))
        => (~sortReturn /\ structureTypes = sortBefore)

----------------------------------------------------------------------------
(* Properties of the generation run (SpecProject, SpecSolution) *)

FilesOfKind(kind) ==
    { i \in 1..Len(m_generatedFiles) : m_generatedFiles[i].m_path.kind = kind }

HasFile(kind, id) ==
    \E i \in 1..Len(m_generatedFiles) :
        m_generatedFiles[i].m_path = [ kind |-> kind, id |-> id ]

AggregateFiles == FilesOfKind("Runtime") \cup FilesOfKind("Tools")

SomeProjectFailed == \E i \in 1..Len(prjResults) : ~prjResults[i]

\* C4: GenerateCodeForSolution returns false whenever GenerateCodeForProject
\* failed for a project with a module header; it returns true only if every
\* per-project step and both aggregate steps succeeded
C4_FailurePropagates ==
    pc = "Done" =>
        /\ SomeProjectFailed => ~solutionResult
        /\ solutionResult =>
             /\ \A i \in 1..Len(prjResults) : prjResults[i]
             /\ FilesOfKind("Runtime") # {}
             /\ FilesOfKind("Tools") # {}

\* C5: the aggregate files are generated only after every project succeeded:
\* once a project has failed no later project is processed and no aggregate
\* file is appended; the runtime aggregate precedes the tooling aggregate and
\* both come after every per-project file
C5_AggregatesAfterProjects ==
    /\ SomeProjectFailed =>
         /\ \A i \in 1..(Len(prjResults) - 1) : prjResults[i]
         /\ pc \notin { "Headers", "ProjectHeader", "ProjectSource" }
         /\ AggregateFiles = {}
    /\ \A r \in FilesOfKind("Runtime") : \A t \in FilesOfKind("Tools") : r < t
    /\ \A a \in AggregateFiles :
         \A i \in 1..Len(m_generatedFiles) : i \notin AggregateFiles => i < a

InProject == pc \in { "Headers", "ProjectHeader", "ProjectSource", "ProjectReturned", "Halted" }

HeaderCount == Len(CurrentProject.m_headerFiles)

HasFileOfProject(prj) ==
    \/ HasFile("ProjectHeader", prj.m_ID)
    \/ HasFile("ProjectSource", prj.m_ID)
    \/ \E k \in 1..Len(prj.m_headerFiles) : HasFile("TypeInfo", prj.m_headerFiles[k])

\* C6: when the types of a project contain a parent cycle,
\* GenerateCodeForProject returns false, the last error names the project
\* and the generated-file list holds no file of that project
C6_CycleLeavesNoFile ==
    (pc = "ProjectReturned" /\ ParentGraphCyclic(GetAllTypesForProject(CurrentProject.m_ID)))
        => /\ ~prjResults[Len(prjResults)]
           /\ m_errorMessage = [ kind |-> "CyclicDependency", name |-> CurrentProject.m_ID ]
           /\ ~HasFileOfProject(CurrentProject)

\* a structure of ts without resolvable parent: identity invalid, or valid
\* and not in the database
Unresolved(t) == ~t.m_isEnum /\ (~IsValid(t.m_parentID) \/ ~GetTypeFound(t.m_parentID))

UnresolvedIn(ts) == { k \in 1..Len(ts) : Unresolved(ts[k]) }

FirstUnresolvedIn(ts) == CHOOSE k \in UnresolvedIn(ts) : \A j \in UnresolvedIn(ts) : k <= j

\* the first structure without resolvable parent has an invalid identity
InvalidParentFirst(ts) ==
    /\ UnresolvedIn(ts) # {}
    /\ ~IsValid(ts[FirstUnresolvedIn(ts)].m_parentID)

\* GenerateTypeInfoFileForHeader has been called on header k of the project
HeaderCallMade(k) ==
    /\ CurrentProject.m_headerFiles[k] # CurrentProject.m_moduleHeaderID
    /\ Len(GetAllTypesForHeader(CurrentProject.m_headerFiles[k])) > 0
    /\ \/ k < hdrIdx
       \/ k = hdrIdx /\ pc \in { "ProjectReturned", "Halted" }

\* the call on header k returned false naming a type of the set named,
\* appended no file, and GenerateCodeForProject returned false without
\* project header or source
HeaderCallRejected(k, named) ==
    /\ pc = "ProjectReturned"
    /\ k = hdrIdx
    /\ lastHeader.id = CurrentProject.m_headerFiles[k]
    /\ ~lastHeader.ret
    /\ Len(m_generatedFiles) = lastHeader.filesBefore
    /\ m_errorMessage.kind = "InvalidParent"
    /\ m_errorMessage.name \in named
    /\ ~HasFile("TypeInfo", CurrentProject.m_headerFiles[k])
    /\ ~prjResults[Len(prjResults)]
    /\ ~HasFile("ProjectHeader", CurrentProject.m_ID)
    /\ ~HasFile("ProjectSource", CurrentProject.m_ID)

SelectedProjectIDs(mode) ==
    { projects[i].m_ID : i \in { j \in 1..Len(projects) :
        /\ IsValid(projects[j].m_moduleHeaderID)
        /\ (mode = "Tools" \/ ~projects[j].m_isToolsProject) } }

DependencyCountOf(p) == ProjectByID(p).m_dependencyCount

\* sel holds every selected project once, in ascending dependency count
SortedSelection(sel, mode) ==
    /\ Range(sel) = SelectedProjectIDs(mode)
    /\ Len(sel) = Cardinality(SelectedProjectIDs(mode))
    /\ \A a, b \in 1..Len(sel) : a < b => DependencyCountOf(sel[a]) <= DependencyCountOf(sel[b])

CallsOf(body, fn) == SelectSeq(body, LAMBDA c : c.fn = fn)

Args(calls) == [ i \in 1..Len(calls) |-> calls[i].arg ]

\* C8: the RegisterTypes body of each aggregate file is RegisterInternalTypes,
\* every selected project's _RegisterTypes in sorted project order, every
\* selected project's _CreateDefaultInstances in the same order,
\* RegisterResourceTypes and, in tooling mode only, RegisterDataFileTypes
C8_RegisterTypesSequence ==
    \A f \in AggregateFiles :
        LET mode == m_generatedFiles[f].m_path.kind
            body == m_generatedFiles[f].m_contents.registerTypes
            sel == Args(CallsOf(body, "Module_RegisterTypes"))
            n == Len(sel)
        IN  /\ SortedSelection(sel, mode)
            /\ Len(body) = 2 * n + 2 + (IF mode = "Tools" THEN 1 ELSE 0)
            /\ body[1] = Call("RegisterInternalTypes", InvalidID)
            /\ \A i \in 1..n :
                 /\ body[1 + i] = Call("Module_RegisterTypes", sel[i])
                 /\ body[1 + n + i] = Call("Module_CreateDefaultInstances", sel[i])
            /\ body[2 * n + 2] = Call("RegisterResourceTypes", InvalidID)
            /\ mode = "Tools" => body[2 * n + 3] = Call("RegisterDataFileTypes", InvalidID)

\* C8 witness: a tooling aggregate over two or more projects whose sorted
\* order differs from the database order
C8_Witness ==
    \E f \in FilesOfKind("Tools") :
        LET sel == Args(CallsOf(m_generatedFiles[f].m_contents.registerTypes,
                                "Module_RegisterTypes"))
        IN  /\ Len(sel) >= 2
            /\ sel[1] > sel[2]

\* the unregister counterpart of a registration step
Counterpart(c) ==
    CASE c.fn = "RegisterInternalTypes" -> << Call("UnregisterInternalTypes", c.arg) >>
      [] c.fn = "Module_RegisterTypes" -> << Call("Module_UnregisterTypes", c.arg) >>
      [] c.fn = "Module_CreateDefaultInstances" -> << >>
      [] c.fn = "RegisterResourceTypes" -> << Call("UnregisterResourceTypes", c.arg) >>
      [] c.fn = "RegisterDataFileTypes" -> << Call("UnregisterDataFileTypes", c.arg) >>

MirrorOf(body) == Flatten([ i \in 1..Len(body) |-> Counterpart(Reverse(body)[i]) ])

\* C9: the UnregisterTypes body of each aggregate file is the mirror image of
\* its RegisterTypes body in reverse: data-file types (tooling mode), then
\* resource types, then the projects in reverse order, UnregisterInternalTypes
\* last
C9_UnregisterMirrorsRegister ==
    \A f \in AggregateFiles :
        m_generatedFiles[f].m_contents.unregisterTypes
            = MirrorOf(m_generatedFiles[f].m_contents.registerTypes)

\* C10: in each aggregate file the project _UnregisterTypes calls are the
\* reverse of the project _RegisterTypes calls, each project once in both
C10_ProjectCallsReversed ==
    \A f \in AggregateFiles :
        LET reg == Args(CallsOf(m_generatedFiles[f].m_contents.registerTypes,
                                "Module_RegisterTypes"))
            unreg == Args(CallsOf(m_generatedFiles[f].m_contents.unregisterTypes,
                                  "Module_UnregisterTypes"))
        IN  /\ unreg = Reverse(reg)
            /\ Cardinality(Range(reg)) = Len(reg)
            /\ Cardinality(Range(unreg)) = Len(unreg)

\* C10 witness: a runtime aggregate that registers two or more projects
C10_Witness ==
    \E f \in FilesOfKind("Runtime") :
        Len(CallsOf(m_generatedFiles[f].m_contents.unregisterTypes,
                    "Module_UnregisterTypes")) >= 2

\* C11: each aggregate file holds exactly the projects its mode selects: the
\* runtime aggregate those with a valid module header that are not tools
\* projects, the tooling aggregate those with a valid module header; each
\* selected project appears exactly once
C11_ExactSelection ==
    \A f \in AggregateFiles :
        LET mode == m_generatedFiles[f].m_path.kind
            inc == m_generatedFiles[f].m_contents.includes
        IN  /\ \A i \in 1..Len(projects) :
                 LET prj == projects[i]
                     keep == /\ IsValid(prj.m_moduleHeaderID)
                             /\ ~(mode = "Runtime" /\ prj.m_isToolsProject)
                 IN  Cardinality({ k \in 1..Len(inc) : inc[k] = prj.m_ID })
                        = (IF keep THEN 1 ELSE 0)
            /\ Range(inc) \subseteq { projects[i].m_ID : i \in 1..Len(projects) }

\* C11 witness: a runtime aggregate over a database in which the project
\* erased first is replaced by a last project that has to be erased as well
C11_Witness ==
    /\ FilesOfKind("Runtime") # {}
    /\ Len(projects) >= 2
    /\ projects[1].m_isToolsProject
    /\ ~IsValid(projects[Len(projects)].m_moduleHeaderID)

\* C12: in each aggregate file the projects are in ascending order of
\* dependency count, and the header includes, the _RegisterTypes calls and the
\* _CreateDefaultInstances calls all follow that one order
C12_OneAscendingOrder ==
    \A f \in AggregateFiles :
        LET inc == m_generatedFiles[f].m_contents.includes
            body == m_generatedFiles[f].m_contents.registerTypes
        IN  /\ \A a, b \in 1..Len(inc) :
                 a < b => DependencyCountOf(inc[a]) <= DependencyCountOf(inc[b])
            /\ Args(CallsOf(body, "Module_RegisterTypes")) = inc
            /\ Args(CallsOf(body, "Module_CreateDefaultInstances")) = inc

\* C12 witness: an aggregate whose first project stands after its second in
\* the database and has the smaller dependency count
C12_Witness ==
    \E f \in AggregateFiles :
        LET inc == m_generatedFiles[f].m_contents.includes
        IN  /\ Len(inc) >= 2
            /\ inc[1] > inc[2]
            /\ DependencyCountOf(inc[1]) < DependencyCountOf(inc[2])

----------------------------------------------------------------------------
(* Properties of the per-type output (SpecTypes) *)

TypeByID(id) == CHOOSE t \in Range(types) : t.m_ID = id

ProjectOfType(t) == CHOOSE prj \in Range(projects) : t.m_headerID \in Range(prj.m_headerFiles)

FileAt(f) == m_generatedFiles[f].m_contents

\* the types of a project in the generated project header or source have
\* some type that derives from another type of the project
HasParentInProject(ts) ==
    \E a, b \in 1..Len(ts) : a # b /\ ts[a].m_parentID = ts[b].m_ID

\* C13: in a project source file _RegisterTypes calls RegisterType_T for
\* every type of the project in the order of SortTypesByDependencies,
\* _CreateDefaultInstances calls CreateDefaultInstance_T in the same relative
\* order, _UnregisterTypes calls UnregisterType_T in exactly the reverse
\* order, and a type whose parent is in the project is registered after its
\* parent and unregistered before it
C13_SourceCallOrder ==
    \A f \in FilesOfKind("ProjectSource") :
        LET ts == GetAllTypesForProject(m_generatedFiles[f].m_path.id)
            reg == Args(FileAt(f).registerTypes)
            cre == Args(FileAt(f).createDefaultInstances)
            unreg == Args(FileAt(f).unregisterTypes)
        IN  /\ reg = FileAt(f).typeOrder
            /\ IsPermutationOf(reg, TypeIDs(ts))
            /\ \A a, b \in 1..Len(cre) :
                 a < b => PositionOf(reg, cre[a]) < PositionOf(reg, cre[b])
            /\ unreg = Reverse(reg)
            /\ \A a, b \in 1..Len(reg) :
                 TypeByID(reg[a]).m_parentID = reg[b]
                    => /\ b < a
                       /\ PositionOf(unreg, reg[a]) < PositionOf(unreg, reg[b])

PerTypeFunctions == { "RegisterType", "CreateDefaultInstance", "UnregisterType" }

CountOf(items, fn, id) ==
    Cardinality({ i \in 1..Len(items) : items[i].fn = fn /\ items[i].arg = id })

\* the per-type functions the items name, with the type of each
FunctionsIn(items) ==
    { << items[i].fn, items[i].arg >> :
        i \in { j \in 1..Len(items) : items[j].fn \in PerTypeFunctions } }

\* the items hold RegisterType and UnregisterType of t once each, and
\* CreateDefaultInstance of t once when t is neither abstract nor an
\* enumeration and not at all otherwise
ObeysEmissionRule(items, t) ==
    /\ CountOf(items, "RegisterType", t.m_ID) = 1
    /\ CountOf(items, "UnregisterType", t.m_ID) = 1
    /\ CountOf(items, "CreateDefaultInstance", t.m_ID)
          = (IF ~t.m_isAbstract /\ ~t.m_isEnum THEN 1 ELSE 0)

SourceCalls(f) ==
    FileAt(f).registerTypes \o FileAt(f).createDefaultInstances \o FileAt(f).unregisterTypes

\* the definitions of all the type-info files of the headers of the project
DefinitionsOfProject(p) ==
    UNION { FunctionsIn(FileAt(f).definitions) :
              f \in { g \in FilesOfKind("TypeInfo") :
                        m_generatedFiles[g].m_path.id \in Range(ProjectByID(p).m_headerFiles) } }

GuardsFollowFlag(items) ==
    \A i \in 1..Len(items) : items[i].devOnly = TypeByID(items[i].arg).m_isDevOnly

AllGuardsFollowFlag ==
    /\ \A f \in FilesOfKind("TypeInfo") : GuardsFollowFlag(FileAt(f).definitions)
    /\ \A f \in FilesOfKind("ProjectHeader") : GuardsFollowFlag(FileAt(f).declarations)
    /\ \A f \in FilesOfKind("ProjectSource") : GuardsFollowFlag(SourceCalls(f))

\* the generated types: those of a project whose source file exists
GeneratedTypes ==
    { t \in Range(types) :
        /\ \E prj \in Range(projects) : t.m_headerID \in Range(prj.m_headerFiles)
        /\ HasFile("ProjectSource", ProjectOfType(t).m_ID) }

\* an aggregate file reaches a type through the project of the type: its
\* header include and its _RegisterTypes call
AggregateHolds(f, t) == ProjectOfType(t).m_ID \in Range(FileAt(f).includes)

NamesNoType(f) ==
    /\ FileAt(f).definitions = << >>
    /\ FileAt(f).declarations = << >>
    /\ FileAt(f).createDefaultInstances = << >>
    /\ FunctionsIn(FileAt(f).registerTypes \o FileAt(f).unregisterTypes) = {}

----------------------------------------------------------------------------
(* Properties of the resource and data-file registration (SpecResources) *)

ResourceCodes(dev) ==
    { resourceTypes[i].m_resourceTypeID :
        i \in { j \in 1..Len(resourceTypes) : resourceTypes[j].m_isDevOnly \in dev } }

DataFileIDs == { dataFileTypes[i].m_typeID : i \in 1..Len(dataFileTypes) }

RegisteredCodes(f) ==
    [ i \in 1..Len(FileAt(f).resourceRegistrations) |->
        FileAt(f).resourceRegistrations[i].m_resourceTypeID ]

\* the sequence holds every element of S once and nothing else
OnceEach(seq, S) == Range(seq) = S /\ Len(seq) = Cardinality(S)

DataFileCalls(f) ==
    CallsOf(FileAt(f).registerTypes, "RegisterDataFileTypes")
        \o CallsOf(FileAt(f).unregisterTypes, "UnregisterDataFileTypes")

\* C16: the runtime aggregate registers and unregisters exactly the resource
\* types that are not development-only and holds neither the data-file
\* registration functions nor calls of them; the tooling aggregate registers
\* and unregisters every resource type and every data-file type
C16_BuildModes ==
    /\ \A f \in FilesOfKind("Runtime") :
         /\ OnceEach(RegisteredCodes(f), ResourceCodes({FALSE}))
         /\ OnceEach(FileAt(f).resourceUnregistrations, ResourceCodes({FALSE}))
         /\ ~FileAt(f).hasDataFileMethods
         /\ FileAt(f).dataFileRegistrations = << >>
         /\ FileAt(f).dataFileUnregistrations = << >>
         /\ DataFileCalls(f) = << >>
    /\ \A f \in FilesOfKind("Tools") :
         /\ OnceEach(RegisteredCodes(f), ResourceCodes(BOOLEAN))
         /\ OnceEach(FileAt(f).resourceUnregistrations, ResourceCodes(BOOLEAN))
         /\ FileAt(f).hasDataFileMethods
         /\ OnceEach(FileAt(f).dataFileRegistrations, DataFileIDs)
         /\ OnceEach(FileAt(f).dataFileUnregistrations, DataFileIDs)
         /\ DataFileCalls(f) = << Call("RegisterDataFileTypes", InvalidID),
                                  Call("UnregisterDataFileTypes", InvalidID) >>

\* C16 witness: both aggregates exist over a table that holds a
\* development-only resource type, one that is not, and a data-file type
C16_Witness ==
    /\ FilesOfKind("Runtime") # {}
    /\ FilesOfKind("Tools") # {}
    /\ ResourceCodes({TRUE}) # {}
    /\ ResourceCodes({FALSE}) # {}
    /\ DataFileIDs # {}

ResourceEntryOf(typeID) ==
    CHOOSE e \in Range(resourceTypes) : e.m_typeID = typeID

IsResourceType(typeID) == \E e \in Range(resourceTypes) : e.m_typeID = typeID

\* the registration of the mode reaches a parent that is no resource type
ParentMissIn(mode) ==
    \E e \in Range(resourceTypes) :
        /\ ~(mode = "Runtime" /\ e.m_isDevOnly)
        /\ \E k \in 1..Len(e.m_parents) : ~IsResourceType(e.m_parents[k])

\* C17: every parent entry emitted for a registered resource type is the
\* code of the table entry whose identity is the parent reference, in declared
\* order; when a parent reference has no table entry the generator halts:
\* the aggregate of that mode is never appended, no entry with an empty
\* parent code is emitted and no failure is reported
C17_ParentResolution ==
    /\ \A f \in AggregateFiles :
         \A i \in 1..Len(FileAt(f).resourceRegistrations) :
             LET info == FileAt(f).resourceRegistrations[i]
                 entry == ResourceEntryOf(info.m_typeID)
             IN  /\ Len(info.m_parentTypes) = Len(entry.m_parents)
                 /\ \A k \in 1..Len(entry.m_parents) :
                      /\ IsResourceType(entry.m_parents[k])
                      /\ info.m_parentTypes[k]
                            = ResourceEntryOf(entry.m_parents[k]).m_resourceTypeID
                      /\ info.m_parentTypes[k] # InvalidResourceTypeID
    /\ ParentMissIn("Runtime") =>
         /\ AggregateFiles = {}
         /\ pc \notin { "Tools", "Done" }
    /\ ParentMissIn("Tools") =>
         /\ FilesOfKind("Tools") = {}
         /\ pc # "Done"
    /\ m_errorMessage = NoError
    /\ pc = "Halted" => ~solutionResult

\* C17 witness: the generator has halted in tooling mode on the missing
\* parent of a development-only resource type, after a runtime aggregate that
\* holds a resource type with a resolved parent
C17_Witness ==
    /\ pc = "Halted"
    /\ ParentMissIn("Tools")
    /\ \E f \in FilesOfKind("Runtime") :
         \E i \in 1..Len(FileAt(f).resourceRegistrations) :
             Len(FileAt(f).resourceRegistrations[i].m_parentTypes) >= 1

----------------------------------------------------------------------------
(* Properties of GenerateEnumTypeInfo (SpecEnum) *)

DistinctLabels ==
    \A a, b \in 1..Len(m_enumConstants) :
        a # b => m_enumConstants[a].m_label # m_enumConstants[b].m_label

AlphabeticalOrderOf(i) == enumConstantInfos[i].m_alphabeticalOrder

\* C18: the constant table lists the constants in declaration order; the
\* alphabetical-order indices are the positions in the labels sorted
\* lexicographically: they are a permutation of 0..n-1 that never puts a
\* greater label first, and for distinct labels label(a) < label(b) implies
\* index(a) < index(b)
C18_AlphabeticalOrder ==
    pc = "EnumDone" =>
        LET n == Len(m_enumConstants)
        IN  /\ Len(enumConstantInfos) = n
            /\ \A i \in 1..n :
                 /\ enumConstantInfos[i].m_ID = m_enumConstants[i].m_label
                 /\ enumConstantInfos[i].m_value = m_enumConstants[i].m_value
            /\ { AlphabeticalOrderOf(i) : i \in 1..n } = 0..(n - 1)
            /\ \A a, b \in 1..n :
                 AlphabeticalOrderOf(a) < AlphabeticalOrderOf(b)
                    => ~LexLess(m_enumConstants[b].m_label, m_enumConstants[a].m_label)
            /\ DistinctLabels =>
                 \A a, b \in 1..n :
                     LexLess(m_enumConstants[a].m_label, m_enumConstants[b].m_label)
                        => AlphabeticalOrderOf(a) < AlphabeticalOrderOf(b)

\* C18 witness: three constants declared greatest label first, least label
\* second, the least being a prefix of the third
C18_Witness ==
    /\ pc = "EnumDone"
    /\ Len(m_enumConstants) = 3
    /\ m_enumConstants[1].m_label = << 2 >>
    /\ m_enumConstants[2].m_label = << 1 >>
    /\ m_enumConstants[3].m_label = << 1, 2 >>
    /\ AlphabeticalOrderOf(1) = 2
    /\ AlphabeticalOrderOf(2) = 0
    /\ AlphabeticalOrderOf(3) = 1

----------------------------------------------------------------------------
(* Properties of the generated-file list (SpecSolution) *)

\* the entries of the list are kept as they are, in their places
EntriesKept ==
    /\ Len(m_generatedFiles') >= Len(m_generatedFiles)
    /\ SubSeq(m_generatedFiles', 1, Len(m_generatedFiles)) = m_generatedFiles

AppendedCount == Len(m_generatedFiles') - Len(m_generatedFiles)

\* the step is a call of GenerateTypeInfoFileForHeader that returned
HeaderCallReturns == pc = "Headers" /\ lastHeader' # lastHeader

\* the step is a call of GenerateSolutionTypeRegistrationFile that returned
AggregateCallReturns ==
    \/ pc = "ProjectLoop" /\ pc' = "Tools"
    \/ pc = "Tools" /\ pc' = "Done"

C20_Step ==
    /\ EntriesKept
    /\ HeaderCallReturns => AppendedCount = (IF lastHeader'.ret THEN 1 ELSE 0)
    /\ pc = "ProjectHeader" => AppendedCount = (IF pc' = "ProjectSource" THEN 1 ELSE 0)
    /\ pc = "ProjectSource" =>
         AppendedCount = (IF prjResults'[Len(prjResults')] THEN 1 ELSE 0)
    /\ AggregateCallReturns => AppendedCount = 1
    /\ ~(HeaderCallReturns \/ pc \in { "ProjectHeader", "ProjectSource" } \/ AggregateCallReturns)
          => AppendedCount = 0

\* C20: the generated-file list is append-only: each of
\* GenerateTypeInfoFileForHeader, GenerateProjectTypeInfoHeaderFile,
\* GenerateProjectTypeInfoSourceFile and GenerateSolutionTypeRegistrationFile
\* appends exactly one entry when it returns true and none when it returns
\* false (the aggregate call returns true only), and no step removes,
\* reorders or changes an entry appended before
C20_AppendOnly == [][C20_Step]_vars

\* C20 witness: a finished run whose list holds a file of each of the four
\* calls, after a project whose generation returned false
C20_Witness ==
    /\ pc = "Done"
    /\ SomeProjectFailed
    /\ FilesOfKind("TypeInfo") # {}
    /\ FilesOfKind("ProjectHeader") # {}
    /\ FilesOfKind("ProjectSource") # {}
    /\ FilesOfKind("Runtime") # {}
    /\ FilesOfKind("Tools") # {}

----------------------------------------------------------------------------
(* Properties of a reflected type and the instance the generated code reads *)

MaxProperties == 2
MaxArraySize == 1

\* ReflectedProperty; the identifier of a property is its position in
\* m_properties, category is the structural category of its declared type
Property(id, category, array, size, dev) ==
    [ m_propertyID |-> id, category |-> category, array |-> array,
      m_arraySize |-> size, m_isDevOnly |-> dev ]

IsArrayProperty(p) == p.array # "None"
IsDynamicArrayProperty(p) == p.array = "Dynamic"
IsStaticArrayProperty(p) == p.array = "Static"
IsEnumProperty(p) == p.category = "Enum"
IsBitFlagsProperty(p) == p.category = "BitFlags"
\* m_typeID == CoreTypeID::TResourcePtr || m_typeID == CoreTypeID::ResourcePtr
IsResourcePtrProperty(p) == p.category = "ResourcePtr"
\* IsCoreType( m_typeID ): the resource-pointer types are core types
IsCoreType(p) == p.category \in { "Core", "ResourcePtr" }
\* the else-branch of every resource emitter: a nested structure
IsStructureProperty(p) ==
    ~IsResourcePtrProperty(p) /\ ~IsCoreType(p) /\ ~IsEnumProperty(p) /\ ~IsBitFlagsProperty(p)

PropertiesOf(type) == { type.m_properties[k] : k \in 1..Len(type.m_properties) }

HasProperties(type) == Len(type.m_properties) > 0
HasArrayProperties(type) == \E p \in PropertiesOf(type) : IsArrayProperty(p)
HasDynamicArrayProperties(type) == \E p \in PropertiesOf(type) : IsDynamicArrayProperty(p)
HasResourcePtrOrStructProperties(type) ==
    \E p \in PropertiesOf(type) : IsResourcePtrProperty(p) \/ IsStructureProperty(p)

\* a resource pointer: what IsSet, IsLoaded and HasLoadingFailed answer
ResourcePtr(set, loaded, failed) == [ set |-> set, loaded |-> loaded, failed |-> failed ]
UnsetPtr == ResourcePtr(FALSE, FALSE, FALSE)
LoadingPtr == ResourcePtr(TRUE, FALSE, FALSE)
LoadedPtr == ResourcePtr(TRUE, TRUE, FALSE)
FailedPtr == ResourcePtr(TRUE, FALSE, TRUE)

\* the value of one member of the instance: its elements (one for a member
\* that is no array) and what IsSet() answers when called on the member
\* itself
Member(elems, isSet) == [ elems |-> elems, isSet |-> isSet ]
PtrMember(ptr) == Member(<< ptr >>, ptr.set)

\* the type of every nested structure: one resource pointer
NestedTypeInfo == [ m_properties |-> << Property(1, "ResourcePtr", "None", 0, FALSE) >> ]
NestedInstance(ptr) == << PtrMember(ptr) >>

----------------------------------------------------------------------------
(* GenerateTypeInfoResourceLoadingStatusMethod and the method it writes *)

Statement(op, p, elem, isSetOf) ==
    [ op |-> op, prop |-> p.m_propertyID, elem |-> elem, isSetOf |-> isSetOf,
      devOnly |-> p.m_isDevOnly ]

\* the statements written for one property
LoadingStatusStatements(p) ==
    IF IsResourcePtrProperty(p)
    THEN IF IsArrayProperty(p)
         THEN IF IsDynamicArrayProperty(p)
              THEN << Statement("ForEachResourcePtr", p, 0, "Element") >>
              ELSE [ i \in 1..p.m_arraySize |-> Statement("ResourcePtr", p, i, "Member") ]
         ELSE << Statement("ResourcePtr", p, 1, "Member") >>
    ELSE IF IsStructureProperty(p)
    THEN IF IsArrayProperty(p)
         THEN IF IsDynamicArrayProperty(p)
              THEN << Statement("ForEachStructure", p, 0, "Element") >>
              ELSE [ i \in 1..p.m_arraySize |-> Statement("Structure", p, i, "Element") ]
         ELSE << Statement("Structure", p, 1, "Element") >>
    ELSE << >>

RECURSIVE StatementsFrom(_, _)
StatementsFrom(properties, k) ==
    IF k > Len(properties) THEN << >>
    ELSE LoadingStatusStatements(properties[k]) \o StatementsFrom(properties, k + 1)

\* the body between "status = Loaded" and "return status"
GenerateTypeInfoResourceLoadingStatusMethod(type) ==
    IF HasResourcePtrOrStructProperties(type)
    THEN StatementsFrom(type.m_properties, 1)
    ELSE << >>

\* the outcome of a statement: whether it returned, and the status it leaves
Outcome(returned, status) == [ returned |-> returned, status |-> status ]

\* if HasLoadingFailed: status = Failed; else if IsSet && !IsLoaded: return Loading
ResourcePtrCheck(ptr, isSet, status) ==
    IF ptr.failed THEN Outcome(FALSE, "Failed")
    ELSE IF isSet /\ ~ptr.loaded THEN Outcome(TRUE, "Loading")
    ELSE Outcome(FALSE, status)

\* status = nested status; if status == Loading: return Loading
StructureCheck(nestedStatus, status) ==
    IF nestedStatus = "Loading" THEN Outcome(TRUE, "Loading")
    ELSE Outcome(FALSE, nestedStatus)

RECURSIVE GetResourceLoadingStatus(_, _, _)
RECURSIVE RunStatements(_, _, _, _, _)
RECURSIVE ForEachElement(_, _, _, _, _)

\* the range-based for loop over a dynamic array, from element i
ForEachElement(op, elems, i, status, tools) ==
    IF i > Len(elems) THEN Outcome(FALSE, status)
    ELSE LET o == IF op = "ForEachResourcePtr"
                  THEN ResourcePtrCheck(elems[i], elems[i].set, status)
                  ELSE StructureCheck(GetResourceLoadingStatus(NestedTypeInfo, elems[i], tools),
                                      status)
         IN  IF o.returned THEN o ELSE ForEachElement(op, elems, i + 1, o.status, tools)

StatementOutcome(s, instance, status, tools) ==
    LET member == instance[s.prop]
    IN  IF s.devOnly /\ ~tools THEN Outcome(FALSE, status)
        ELSE IF s.op \in { "ForEachResourcePtr", "ForEachStructure" }
        THEN ForEachElement(s.op, member.elems, 1, status, tools)
        ELSE IF s.op = "ResourcePtr"
        THEN ResourcePtrCheck(member.elems[s.elem],
                              IF s.isSetOf = "Member" THEN member.isSet
                              ELSE member.elems[s.elem].set,
                              status)
        ELSE StructureCheck(GetResourceLoadingStatus(NestedTypeInfo, member.elems[s.elem], tools),
                            status)

RunStatements(body, k, instance, status, tools) ==
    IF k > Len(body) THEN status
    ELSE LET o == StatementOutcome(body[k], instance, status, tools)
         IN  IF o.returned THEN o.status
             ELSE RunStatements(body, k + 1, instance, o.status, tools)

\* the generated method of a type, called on an instance of it
GetResourceLoadingStatus(type, instance, tools) ==
    RunStatements(GenerateTypeInfoResourceLoadingStatusMethod(type), 1, instance, "Loaded", tools)

----------------------------------------------------------------------------
(* One call of the generated GetResourceLoadingStatus (SpecLoadingStatus) *)

RECURSIVE SeqsOfLength(_, _)
SeqsOfLength(S, n) ==
    IF n = 0 THEN { << >> }
    ELSE { << x >> \o t : x \in S, t \in SeqsOfLength(S, n - 1) }

SeqsUpTo(S, n) == UNION { SeqsOfLength(S, k) : k \in 0..n }

\* the states of a resource pointer held in an array, and of the resource
\* pointer of a nested structure
ArrayPtrs == { LoadingPtr, LoadedPtr, FailedPtr }
NestedInstances == { NestedInstance(ptr) : ptr \in ArrayPtrs }

Shape(category, array, size, dev, member) ==
    [ category |-> category, array |-> array, size |-> size, dev |-> dev, member |-> member ]

\* a property together with the value of its member: a core property, a
\* resource pointer (development-only ones are loading or failed), a dynamic
\* array of up to MaxArraySize elements, a fixed-size array of MaxArraySize
\* elements; IsSet() of a fixed-size array member is not derived from its
\* elements
MemberShapes ==
    { Shape("Core", "None", 0, FALSE, Member(<< >>, FALSE)) }
    \cup { Shape("ResourcePtr", "None", 0, FALSE, PtrMember(ptr)) :
             ptr \in { UnsetPtr, LoadingPtr, LoadedPtr, FailedPtr } }
    \cup { Shape("ResourcePtr", "None", 0, TRUE, PtrMember(ptr)) :
             ptr \in { LoadingPtr, FailedPtr } }
    \cup { Shape("ResourcePtr", "Dynamic", 0, FALSE, Member(elems, FALSE)) :
             elems \in SeqsUpTo(ArrayPtrs, MaxArraySize) }
    \cup { Shape("ResourcePtr", "Static", MaxArraySize, FALSE, Member(elems, isSet)) :
             elems \in SeqsOfLength(ArrayPtrs, MaxArraySize), isSet \in BOOLEAN }
    \cup { Shape("Structure", "None", 0, FALSE, Member(<< n >>, FALSE)) : n \in NestedInstances }
    \cup { Shape("Structure", "Dynamic", 0, FALSE, Member(elems, FALSE)) :
             elems \in SeqsUpTo(NestedInstances, MaxArraySize) }
    \cup { Shape("Structure", "Static", MaxArraySize, FALSE, Member(elems, FALSE)) :
             elems \in SeqsOfLength(NestedInstances, MaxArraySize) }

InitLoadingStatus ==
    /\ projects = << >>
    /\ types = << >>
    /\ NoResources
    /\ GenInit("LoadingStatusMethod")
    /\ SortIdle
    /\ EnumIdle
    /\ \E n \in 0..MaxProperties : \E shapes \in [ 1..n -> MemberShapes ] :
         /\ typeInfo = [ m_properties |->
                           [ k \in 1..n |-> Property(k, shapes[k].category, shapes[k].array,
                                                     shapes[k].size, shapes[k].dev) ] ]
         /\ pActualType = [ k \in 1..n |-> shapes[k].member ]
    /\ typeInfoMethods = << >>
    /\ toolsBuild \in BOOLEAN
    /\ loadingStatus = "None"
    /\ NoArrayCall
    /\ ComponentIdle

\* the generator writes the method of the type
WriteResourceLoadingStatusMethod ==
    /\ pc = "LoadingStatusMethod"
    /\ typeInfoMethods' = GenerateTypeInfoResourceLoadingStatusMethod(typeInfo)
    /\ pc' = "LoadingStatusWritten"
    /\ UNCHANGED << dbVars, sortVars, enumVars, typeInfo, toolsBuild, pActualType, loadingStatus,
                    arrayCall, componentVars,
                    m_generatedFiles, m_errorMessage, prjIdx, hdrIdx, prjFilesBefore,
                    prjResults, lastHeader, solutionResult >>

\* the built program calls the method on the instance
CallGetResourceLoadingStatus ==
    /\ pc = "LoadingStatusWritten"
    /\ loadingStatus' = RunStatements(typeInfoMethods, 1, pActualType, "Loaded", toolsBuild)
    /\ pc' = "LoadingStatusReturned"
    /\ UNCHANGED << dbVars, sortVars, enumVars, typeInfo, typeInfoMethods, toolsBuild, pActualType,
                    arrayCall, componentVars,
                    m_generatedFiles, m_errorMessage, prjIdx, hdrIdx, prjFilesBefore,
                    prjResults, lastHeader, solutionResult >>

NextLoadingStatus == WriteResourceLoadingStatusMethod \/ CallGetResourceLoadingStatus

SpecLoadingStatus == InitLoadingStatus /\ [][NextLoadingStatus]_vars

----------------------------------------------------------------------------
(* Properties of the generated GetResourceLoadingStatus (SpecLoadingStatus) *)

\* the properties the build holds: development-only ones in a tools build
ExistingProperties ==
    { p \in PropertiesOf(typeInfo) : toolsBuild \/ ~p.m_isDevOnly }

ElementsOf(p) == { pActualType[p.m_propertyID].elems[i] :
                     i \in 1..Len(pActualType[p.m_propertyID].elems) }

\* what one element of a property reports
ElementFailed(p, e) ==
    IF IsResourcePtrProperty(p) THEN e.failed
    ELSE GetResourceLoadingStatus(NestedTypeInfo, e, toolsBuild) = "Failed"

ElementStillLoading(p, e) ==
    IF IsResourcePtrProperty(p) THEN e.set /\ ~e.loaded /\ ~e.failed
    ELSE GetResourceLoadingStatus(NestedTypeInfo, e, toolsBuild) = "Loading"

ReportsFailed(p) ==
    /\ IsResourcePtrProperty(p) \/ IsStructureProperty(p)
    /\ \E e \in ElementsOf(p) : ElementFailed(p, e)

StillLoading(p) ==
    /\ IsResourcePtrProperty(p) \/ IsStructureProperty(p)
    /\ \E e \in ElementsOf(p) : ElementStillLoading(p, e)

LoadingStatusReturned == pc = "LoadingStatusReturned"

\* C21: when the call has returned, no property is still loading and some
\* property reported failed, the result is Failed
C21_FailureRetained ==
    ( /\ LoadingStatusReturned
      /\ \A p \in ExistingProperties : ~StillLoading(p)
      /\ \E p \in ExistingProperties : ReportsFailed(p) )
    => loadingStatus = "Failed"

\* C22: when the call has returned, the result is Loading exactly when some
\* property is still loading, and a type without resource-pointer and
\* nested-structure properties returns Loaded
C22_LoadingIffStillLoading ==
    LoadingStatusReturned =>
        /\ loadingStatus = "Loading" <=> \E p \in ExistingProperties : StillLoading(p)
        /\ ~HasResourcePtrOrStructProperties(typeInfo) => loadingStatus = "Loaded"

----------------------------------------------------------------------------
(* The array accessor emitters and the method bodies they write *)

\* one statement of a branch: a call on a member of pActualType
MemberCall(p, call) == [ member |-> p.m_propertyID, call |-> call ]

\* if ( arrayID == m_propertyID ) { ... }, inside the development-tools
\* guard when the property is development-only
Branch(p, operations) ==
    [ arrayID |-> p.m_propertyID, devOnly |-> p.m_isDevOnly, operations |-> operations ]

\* a method body: whether pActualType is declared, the branches in
\* declaration order of the properties, and the trailing EE_UNREACHABLE_CODE
AccessorBody(cast, branches) ==
    [ cast |-> cast, branches |-> branches, fallback |-> "EE_UNREACHABLE_CODE" ]

ArrayProperties(type) == SelectSeq(type.m_properties, IsArrayProperty)

DynamicArrayProperties_WithStatic(type) == SelectSeq(type.m_properties, IsArrayProperty)

DynamicArrayProperties(type) == SelectSeq(type.m_properties, IsDynamicArrayProperty)

SetSizeOps(p) == << MemberCall(p, "resize") >>
ClearOps(p) == << MemberCall(p, "clear") >>
AddOps(p) == << MemberCall(p, "emplace_back") >>
InsertOps(p) == << MemberCall(p, "begin"), MemberCall(p, "emplace") >>
MoveOps(p) ==
    << MemberCall(p, "operator[]"), MemberCall(p, "begin"), MemberCall(p, "erase"),
       MemberCall(p, "begin"), MemberCall(p, "insert") >>
RemoveOps(p) == << MemberCall(p, "begin"), MemberCall(p, "erase") >>

ElementSizeOps(p) == << MemberCall(p, "sizeof") >>

ArraySizeOps(p) ==
    IF IsDynamicArrayProperty(p) THEN << MemberCall(p, "size") >>
    ELSE << MemberCall(p, "GetArraySize") >>

ElementDataPtrOps(p) ==
    IF IsDynamicArrayProperty(p)
    THEN << MemberCall(p, "size"), MemberCall(p, "resize"), MemberCall(p, "operator[]") >>
    ELSE << MemberCall(p, "operator[]") >>

\* the statements inside the branch that method m has for property p
BranchOps(m, p) ==
    CASE m = "GetArrayElementDataPtr" -> ElementDataPtrOps(p)
      [] m = "GetArraySize" -> ArraySizeOps(p)
      [] m = "GetArrayElementSize" -> ElementSizeOps(p)
      [] m = "SetArraySize" -> SetSizeOps(p)
      [] m = "ClearArray" -> ClearOps(p)
      [] m = "AddArrayElement" -> AddOps(p)
      [] m = "InsertArrayElement" -> InsertOps(p)
      [] m = "MoveArrayElement" -> MoveOps(p)
      [] m = "RemoveArrayElement" -> RemoveOps(p)

BranchesOf(properties, m) ==
    [ k \in 1..Len(properties) |-> Branch(properties[k], BranchOps(m, properties[k])) ]

GenerateTypeInfoArrayAccessorMethod(type) ==
    IF HasArrayProperties(type)
    THEN AccessorBody(TRUE, BranchesOf(ArrayProperties(type), "GetArrayElementDataPtr"))
    ELSE AccessorBody(FALSE, << >>)

GenerateTypeInfoArraySizeMethod(type) ==
    IF HasArrayProperties(type)
    THEN AccessorBody(TRUE, BranchesOf(ArrayProperties(type), "GetArraySize"))
    ELSE AccessorBody(FALSE, << >>)

GenerateTypeInfoArrayElementSizeMethod(type) ==
    AccessorBody(FALSE, BranchesOf(ArrayProperties(type), "GetArrayElementSize"))

GenerateTypeInfoArraySetSizeMethod(type) ==
    IF HasArrayProperties(type)
    THEN AccessorBody(TRUE, BranchesOf(DynamicArrayProperties(type), "SetArraySize"))
    ELSE AccessorBody(FALSE, << >>)

\* the five emitters of lines 1416-1616 differ in the calls of the branch
DynamicArrayMethod(type, m) ==
    IF HasDynamicArrayProperties(type)
    THEN AccessorBody(TRUE, BranchesOf(DynamicArrayProperties(type), m))
    ELSE AccessorBody(FALSE, << >>)

GenerateTypeInfoArrayClearMethod(type) == DynamicArrayMethod(type, "ClearArray")
GenerateTypeInfoAddArrayElementMethod(type) == DynamicArrayMethod(type, "AddArrayElement")
GenerateTypeInfoInsertArrayElementMethod(type) == DynamicArrayMethod(type, "InsertArrayElement")
GenerateTypeInfoMoveArrayElementMethod(type) == DynamicArrayMethod(type, "MoveArrayElement")
GenerateTypeInfoRemoveArrayElementMethod(type) == DynamicArrayMethod(type, "RemoveArrayElement")

ReadingArrayAccessors == { "GetArrayElementDataPtr", "GetArraySize", "GetArrayElementSize" }
ResizingArrayAccessors ==
    { "SetArraySize", "ClearArray", "AddArrayElement", "InsertArrayElement",
      "MoveArrayElement", "RemoveArrayElement" }
ArrayAccessors == ReadingArrayAccessors \cup ResizingArrayAccessors

----------------------------------------------------------------------------
(* The creation and registration emitters *)

\* a statement that names no member
Stmt(op) == [ op |-> op, member |-> 0, devOnly |-> FALSE ]
\* the block of CreateDefaultInstance that sets the default info of a property
DefaultInfo(p) == [ op |-> "SetDefaultInfo", member |-> p.m_propertyID, devOnly |-> p.m_isDevOnly ]

GenerateTypeInfoCreationMethod(type) ==
    IF ~IsAbstract(type)
    THEN << Stmt("EE::Alloc"), Stmt("new"), Stmt("return instance") >>
    ELSE << Stmt("EE_HALT"), Stmt("return nullptr") >>

GenerateTypeInfoInPlaceCreationMethod(type) ==
    IF ~IsAbstract(type)
    THEN << Stmt("EE_ASSERT"), Stmt("new") >>
    ELSE << Stmt("EE_HALT") >>

GenerateTypeInfoResetTypeMethod(type) ==
    IF ~IsAbstract(type)
    THEN << Stmt("EE_ASSERT"), Stmt("~IReflectedType"), Stmt("CreateTypeInPlace") >>
    ELSE << Stmt("EE_HALT") >>

RegisterTypeMethod == << Stmt("EE::New TTypeInfo"), Stmt("typeRegistry.RegisterType") >>

CreateDefaultInstanceMethod(type) ==
    << Stmt("EE::Alloc"),
       Stmt(IF type.m_hasCustomDefaultInstanceCtor THEN "new( DefaultInstanceCtor )" ELSE "new") >>
    \o [ k \in 1..Len(type.m_properties) |-> DefaultInfo(type.m_properties[k]) ]

HasDefaultInstance_AbstractToo(type) == ~IsEnum(type)

\* whether lines 2495 and 2558 see a type that gets a default instance
HasDefaultInstance(type) == ~IsAbstract(type) /\ ~IsEnum(type)

UnregisterTypeMethod(type) ==
    << Stmt("typeRegistry.UnregisterType") >>
    \o ( IF HasDefaultInstance(type) THEN << Stmt("EE::Delete m_pDefaultInstance") >> ELSE << >> )
    \o << Stmt("EE::Delete s_pTypeInfo") >>

\* the static methods written, by name
GenerateTypeInfoStaticTypeRegistrationMethods(type) ==
    { "RegisterType", "UnregisterType" }
    \cup ( IF HasDefaultInstance(type) THEN { "CreateDefaultInstance" } ELSE { } )

----------------------------------------------------------------------------
(* GenerateStructureTypeInfo: the methods of TTypeInfo<T>, by name *)

CreationMethods == { "CreateType", "CreateTypeInPlace", "ResetType" }

TypeInfoMethodBody(m, type) ==
    CASE m = "RegisterType" -> RegisterTypeMethod
      [] m = "CreateDefaultInstance" -> CreateDefaultInstanceMethod(type)
      [] m = "UnregisterType" -> UnregisterTypeMethod(type)
      [] m = "CreateType" -> GenerateTypeInfoCreationMethod(type)
      [] m = "CreateTypeInPlace" -> GenerateTypeInfoInPlaceCreationMethod(type)
      [] m = "ResetType" -> GenerateTypeInfoResetTypeMethod(type)
      [] m = "GetResourceLoadingStatus" -> GenerateTypeInfoResourceLoadingStatusMethod(type)
      [] m = "GetArrayElementDataPtr" -> GenerateTypeInfoArrayAccessorMethod(type)
      [] m = "GetArraySize" -> GenerateTypeInfoArraySizeMethod(type)
      [] m = "GetArrayElementSize" -> GenerateTypeInfoArrayElementSizeMethod(type)
      [] m = "SetArraySize" -> GenerateTypeInfoArraySetSizeMethod(type)
      [] m = "ClearArray" -> GenerateTypeInfoArrayClearMethod(type)
      [] m = "AddArrayElement" -> GenerateTypeInfoAddArrayElementMethod(type)
      [] m = "InsertArrayElement" -> GenerateTypeInfoInsertArrayElementMethod(type)
      [] m = "MoveArrayElement" -> GenerateTypeInfoMoveArrayElementMethod(type)
      [] m = "RemoveArrayElement" -> GenerateTypeInfoRemoveArrayElementMethod(type)

StructureTypeInfoMethods(type) ==
    [ m \in GenerateTypeInfoStaticTypeRegistrationMethods(type) \cup CreationMethods
            \cup { "GetResourceLoadingStatus" } \cup ArrayAccessors
      |-> TypeInfoMethodBody(m, type) ]

\* the generated accessor called with an array identifier: the first branch
\* the build holds whose test matches returns, else the fallback is reached
RECURSIVE RunAccessor(_, _, _, _)
RunAccessor(body, k, arrayID, tools) ==
    IF k > Len(body.branches) THEN << [ member |-> 0, call |-> body.fallback ] >>
    ELSE IF body.branches[k].arrayID = arrayID /\ (tools \/ ~body.branches[k].devOnly)
    THEN body.branches[k].operations
    ELSE RunAccessor(body, k + 1, arrayID, tools)

----------------------------------------------------------------------------
(* One call of GenerateStructureTypeInfo and one call of a generated array
   accessor (SpecTypeInfo) *)

\* a property of a core type: no array, a dynamic array or a fixed-size array
ArrayShapes ==
    { [ array |-> a, size |-> IF a = "Static" THEN MaxArraySize ELSE 0, dev |-> d ] :
        a \in { "None", "Dynamic", "Static" }, d \in BOOLEAN }

InitTypeInfo ==
    /\ projects = << >>
    /\ types = << >>
    /\ NoResources
    /\ GenInit("StructureTypeInfo")
    /\ SortIdle
    /\ EnumIdle
    /\ \E n \in 0..MaxProperties : \E shapes \in [ 1..n -> ArrayShapes ] :
       \E abstract \in BOOLEAN, customCtor \in BOOLEAN :
         typeInfo = [ m_isEnum |-> FALSE, m_isAbstract |-> abstract,
                      m_hasCustomDefaultInstanceCtor |-> customCtor,
                      m_properties |->
                        [ k \in 1..n |-> Property(k, "Core", shapes[k].array, shapes[k].size,
                                                  shapes[k].dev) ] ]
    /\ typeInfoMethods = << >>
    /\ toolsBuild \in BOOLEAN
    /\ pActualType = << >>
    /\ loadingStatus = "None"
    /\ NoArrayCall
    /\ ComponentIdle

GenerateStructureTypeInfo ==
    /\ pc = "StructureTypeInfo"
    /\ typeInfoMethods' = StructureTypeInfoMethods(typeInfo)
    /\ pc' = "TypeInfoWritten"
    /\ UNCHANGED << dbVars, sortVars, enumVars, typeInfo, toolsBuild, pActualType, loadingStatus,
                    arrayCall, componentVars,
                    m_generatedFiles, m_errorMessage, prjIdx, hdrIdx, prjFilesBefore,
                    prjResults, lastHeader, solutionResult >>

\* the built program calls one array accessor with the identifier of a
\* property, or with an identifier no property has
CallArrayAccessor ==
    /\ pc = "TypeInfoWritten"
    /\ \E m \in ArrayAccessors, id \in 1..(Len(typeInfo.m_properties) + 1) :
         arrayCall' = [ method |-> m, arrayID |-> id,
                        ran |-> RunAccessor(typeInfoMethods[m], 1, id, toolsBuild) ]
    /\ pc' = "ArrayCalled"
    /\ UNCHANGED << dbVars, sortVars, enumVars, typeInfo, typeInfoMethods, toolsBuild, pActualType,
                    loadingStatus, componentVars,
                    m_generatedFiles, m_errorMessage, prjIdx, hdrIdx, prjFilesBefore,
                    prjResults, lastHeader, solutionResult >>

NextTypeInfo == GenerateStructureTypeInfo \/ CallArrayAccessor

SpecTypeInfo == InitTypeInfo /\ [][NextTypeInfo]_vars

----------------------------------------------------------------------------
(* Properties of the array accessors (SpecTypeInfo) *)

TypeInfoWritten == pc \in { "TypeInfoWritten", "ArrayCalled" }

BranchIDs(body) == { body.branches[k].arrayID : k \in 1..Len(body.branches) }

IDsOf(properties) == { p.m_propertyID : p \in properties }

\* one branch per identifier, and every statement of a branch is a call on
\* the member the branch tests for
BranchesWellFormed(body) ==
    /\ Cardinality(BranchIDs(body)) = Len(body.branches)
    /\ \A k \in 1..Len(body.branches) :
         /\ Len(body.branches[k].operations) > 0
         /\ \A i \in 1..Len(body.branches[k].operations) :
              body.branches[k].operations[i].member = body.branches[k].arrayID

OnlyFallback(body) == ~body.cast /\ body.branches = << >>

\* the accessor m has a branch exactly for the properties of the given set
BranchesExactlyFor(m, properties) ==
    /\ BranchIDs(typeInfoMethods[m]) = IDsOf(properties)
    /\ BranchesWellFormed(typeInfoMethods[m])
    /\ ~HasArrayProperties(typeInfo) => OnlyFallback(typeInfoMethods[m])

\* C23 as claimed: each of the nine accessors has a branch for p exactly
\* when p is an array property, dynamic or fixed-size, the branch operates
\* on p only, and without array properties the body is only the fallback
C23_ArrayAccessorGating ==
    TypeInfoWritten =>
        \A m \in ArrayAccessors :
            BranchesExactlyFor(m, { p \in PropertiesOf(typeInfo) : IsArrayProperty(p) })

\* C23 amended: the three reading accessors have a branch for p exactly when
\* p is an array property, the six resizing accessors exactly when p is a
\* dynamic array property; every branch operates on p only, without array
\* properties every body is only the fallback, and a call runs the branch of
\* its identifier or the fallback
C23_ArrayAccessorGatingByKind ==
    /\ TypeInfoWritten =>
         /\ \A m \in ReadingArrayAccessors :
              BranchesExactlyFor(m, { p \in PropertiesOf(typeInfo) : IsArrayProperty(p) })
         /\ \A m \in ResizingArrayAccessors :
              BranchesExactlyFor(m, { p \in PropertiesOf(typeInfo) : IsDynamicArrayProperty(p) })
    /\ pc = "ArrayCalled" =>
         \A i \in 1..Len(arrayCall.ran) :
            arrayCall.ran[i].member \in { 0, arrayCall.arrayID }

\* a resizing accessor called for a fixed-size array of a type that also has
\* a dynamic array: the fallback is reached
C23_Witness ==
    /\ pc = "ArrayCalled"
    /\ arrayCall.method \in ResizingArrayAccessors
    /\ arrayCall.arrayID <= Len(typeInfo.m_properties)
    /\ IsStaticArrayProperty(typeInfo.m_properties[arrayCall.arrayID])
    /\ HasDynamicArrayProperties(typeInfo)
    /\ arrayCall.ran = << [ member |-> 0, call |-> "EE_UNREACHABLE_CODE" ] >>

----------------------------------------------------------------------------
(* Properties of the creation and registration methods (SpecTypeInfo) *)

OpsOf(body) == { body[i].op : i \in 1..Len(body) }

StatementIndex(body, op) == CHOOSE i \in 1..Len(body) : body[i].op = op

ConstructingOps == { "new", "new( DefaultInstanceCtor )", "CreateTypeInPlace" }

\* a body that halts and constructs nothing
IsHaltStub(body) ==
    /\ body[1].op = "EE_HALT"
    /\ OpsOf(body) \cap (ConstructingOps \cup { "EE::Alloc" }) = { }

Constructs(body) ==
    /\ "EE_HALT" \notin OpsOf(body)
    /\ OpsOf(body) \cap ConstructingOps # { }

\* C24: for an abstract type the three creation bodies are halt stubs, no
\* CreateDefaultInstance is written and UnregisterType deletes no default
\* instance; for any other structure type the three bodies construct, and
\* UnregisterType deletes the default instance ahead of the type info
C24_AbstractGating ==
    TypeInfoWritten =>
        LET unregister == typeInfoMethods["UnregisterType"]
        IN  IF IsAbstract(typeInfo)
            THEN /\ \A m \in CreationMethods : IsHaltStub(typeInfoMethods[m])
                 /\ "CreateDefaultInstance" \notin DOMAIN typeInfoMethods
                 /\ "EE::Delete m_pDefaultInstance" \notin OpsOf(unregister)
                 /\ "EE::Delete s_pTypeInfo" \in OpsOf(unregister)
            ELSE /\ \A m \in CreationMethods : Constructs(typeInfoMethods[m])
                 /\ "CreateDefaultInstance" \in DOMAIN typeInfoMethods
                 /\ Constructs(typeInfoMethods["CreateDefaultInstance"])
                 /\ { "EE::Delete m_pDefaultInstance", "EE::Delete s_pTypeInfo" }
                        \subseteq OpsOf(unregister)
                 /\ StatementIndex(unregister, "EE::Delete m_pDefaultInstance")
                        < StatementIndex(unregister, "EE::Delete s_pTypeInfo")

\* the methods of an abstract type with properties have been written
C24_Witness ==
    /\ pc = "TypeInfoWritten"
    /\ IsAbstract(typeInfo)
    /\ HasProperties(typeInfo)
    /\ typeInfoMethods["CreateType"] = << Stmt("EE_HALT"), Stmt("return nullptr") >>
    /\ Len(typeInfoMethods["UnregisterType"]) = 2

----------------------------------------------------------------------------
(* GenerateComponentCodegen and the methods it writes *)

MaxCalls == 3

SetStatus(status) == [ op |-> "m_status =", arg |-> status ]
TypeInfoCall(method) == [ op |-> "s_pTypeInfo->", arg |-> method ]

ComponentLoadMethod_NeverLoaded(type) ==
    << TypeInfoCall("LoadResources"), SetStatus("Loading") >>

\* Load, lines 1085-1098
ComponentLoadMethod(type) ==
    IF HasProperties(type)
    THEN << TypeInfoCall("LoadResources"), SetStatus("Loading") >>
    ELSE << SetStatus("Loaded") >>

\* Unload, lines 1103-1113
ComponentUnloadMethod(type) ==
    ( IF HasProperties(type) THEN << TypeInfoCall("UnloadResources") >> ELSE << >> )
    \o << SetStatus("Unloaded") >>

\* UpdateLoading, lines 1118-1151: the status the body is guarded by, and
\* whether the body asks GetResourceLoadingStatus
ComponentUpdateLoadingMethod(type) ==
    [ whenStatus |-> "Loading", asksResources |-> HasProperties(type) ]

\* the three methods, written for an entity component only
ComponentMethods(type) ==
    IF IsEntityComponent(type)
    THEN [ Load |-> ComponentLoadMethod(type),
           Unload |-> ComponentUnloadMethod(type),
           UpdateLoading |-> ComponentUpdateLoadingMethod(type) ]
    ELSE << >>

\* the component after the statements of Load or Unload from statement k
RECURSIVE RunComponentStatements(_, _, _, _)
RunComponentStatements(body, k, status, calls) ==
    IF k > Len(body) THEN [ status |-> status, calls |-> calls ]
    ELSE IF body[k].op = "m_status ="
    THEN RunComponentStatements(body, k + 1, body[k].arg, calls)
    ELSE RunComponentStatements(body, k + 1, status, Append(calls, body[k].arg))

RunUpdateLoading_AnyStatus(method, status, resources) ==
    IF ~method.asksResources THEN "Loaded"
    ELSE IF resources = "Loading" THEN status
    ELSE IF resources = "Failed" THEN "LoadingFailed"
    ELSE "Loaded"

\* m_status after the body of UpdateLoading
RunUpdateLoading(method, status, resources) ==
    IF status # method.whenStatus THEN status
    ELSE IF ~method.asksResources THEN "Loaded"
    ELSE IF resources = "Loading" THEN status
    ELSE IF resources = "Failed" THEN "LoadingFailed"
    ELSE "Loaded"

----------------------------------------------------------------------------
(* A generated entity component receiving calls (SpecComponent) *)

\* a property of the component: of a core type or a resource pointer
ComponentProperties(n) ==
    { [ k \in 1..n |-> Property(k, cats[k], "None", 0, FALSE) ] :
        cats \in [ 1..n -> { "Core", "ResourcePtr" } ] }

InitComponent ==
    /\ projects = << >>
    /\ types = << >>
    /\ NoResources
    /\ GenInit("ComponentCodegen")
    /\ SortIdle
    /\ EnumIdle
    /\ \E n \in 0..MaxProperties : \E properties \in ComponentProperties(n) :
       \E component \in BOOLEAN :
         typeInfo = [ m_isEntityComponent |-> component, m_properties |-> properties ]
    /\ typeInfoMethods = << >>
    /\ toolsBuild \in BOOLEAN
    /\ pActualType = << >>
    /\ loadingStatus = "None"
    /\ NoArrayCall
    /\ ComponentIdle

GenerateComponentCodegen ==
    /\ pc = "ComponentCodegen"
    /\ typeInfoMethods' = ComponentMethods(typeInfo)
    /\ pc' = IF IsEntityComponent(typeInfo) THEN "ComponentBuilt" ELSE "NoComponent"
    /\ UNCHANGED << dbVars, sortVars, enumVars, typeInfo, toolsBuild, pActualType, loadingStatus,
                    arrayCall, componentVars,
                    m_generatedFiles, m_errorMessage, prjIdx, hdrIdx, prjFilesBefore,
                    prjResults, lastHeader, solutionResult >>

ComponentUnchanged ==
    UNCHANGED << dbVars, sortVars, enumVars, typeInfo, typeInfoMethods, toolsBuild, pActualType,
                 loadingStatus, arrayCall,
                 m_generatedFiles, m_errorMessage, pc, prjIdx, hdrIdx, prjFilesBefore,
                 prjResults, lastHeader, solutionResult >>

CanCall == pc = "ComponentBuilt" /\ Len(componentCalls) < MaxCalls

CallLoad ==
    /\ CanCall
    /\ LET after == RunComponentStatements(typeInfoMethods.Load, 1, m_status, resourceCalls)
       IN  /\ m_status' = after.status
           /\ resourceCalls' = after.calls
    /\ componentCalls' = Append(componentCalls, "Load")
    /\ UNCHANGED resourceLoadingStatus
    /\ ComponentUnchanged

CallUnload ==
    /\ CanCall
    /\ LET after == RunComponentStatements(typeInfoMethods.Unload, 1, m_status, resourceCalls)
       IN  /\ m_status' = after.status
           /\ resourceCalls' = after.calls
    /\ componentCalls' = Append(componentCalls, "Unload")
    /\ UNCHANGED resourceLoadingStatus
    /\ ComponentUnchanged

CallUpdateLoading ==
    /\ CanCall
    /\ m_status' = RunUpdateLoading(typeInfoMethods.UpdateLoading, m_status, resourceLoadingStatus)
    /\ componentCalls' = Append(componentCalls, "UpdateLoading")
    /\ UNCHANGED << resourceCalls, resourceLoadingStatus >>
    /\ ComponentUnchanged

\* the resource system moves on: GetResourceLoadingStatus( this ) answers
\* anew; a type without resource pointers always answers Loaded
ResourcesProgress ==
    /\ pc = "ComponentBuilt"
    /\ HasResourcePtrOrStructProperties(typeInfo)
    /\ resourceLoadingStatus' \in { "Loading", "Loaded", "Failed" } \ { resourceLoadingStatus }
    /\ UNCHANGED << m_status, componentCalls, resourceCalls >>
    /\ ComponentUnchanged

NextComponent ==
    \/ GenerateComponentCodegen
    \/ CallLoad
    \/ CallUnload
    \/ CallUpdateLoading
    \/ ResourcesProgress

SpecComponent == InitComponent /\ [][NextComponent]_vars

----------------------------------------------------------------------------
(* Properties of the generated component methods (SpecComponent) *)

Called(method) == componentCalls' = Append(componentCalls, method)

C25_Step ==
    /\ Called("Load") =>
         IF HasProperties(typeInfo)
         THEN /\ resourceCalls' = Append(resourceCalls, "LoadResources")
              /\ m_status' = "Loading"
         ELSE /\ resourceCalls' = resourceCalls
              /\ m_status' = "Loaded"
    /\ Called("Unload") =>
         /\ m_status' = "Unloaded"
         /\ resourceCalls' = IF HasProperties(typeInfo)
                             THEN Append(resourceCalls, "UnloadResources")
                             ELSE resourceCalls

\* C25: every Load call of a component without properties sets Loaded and
\* every Unload call sets Unloaded, with no call of the resource machinery;
\* with properties Load calls LoadResources and sets Loading, and Unload
\* calls UnloadResources and sets Unloaded
C25_LoadUnload == [][C25_Step]_vars

\* a component with properties has been loaded and unloaded
C25_Witness ==
    /\ componentCalls = << "Load", "Unload" >>
    /\ HasProperties(typeInfo)
    /\ m_status = "Unloaded"
    /\ resourceCalls = << "LoadResources", "UnloadResources" >>

C26_Step ==
    Called("UpdateLoading") =>
        /\ resourceCalls' = resourceCalls
        /\ m_status # "Loading" => m_status' = m_status
        /\ m_status = "Loading" =>
             m_status' = IF resourceLoadingStatus = "Loading" THEN "Loading"
                         ELSE IF resourceLoadingStatus = "Failed" THEN "LoadingFailed"
                         ELSE "Loaded"

\* C26: every UpdateLoading call leaves a status other than Loading as it
\* is; from Loading it keeps Loading while the resources report Loading,
\* sets LoadingFailed when they report Failed and Loaded otherwise, so the
\* first call after the resources stop reporting Loading leaves Loading
C26_UpdateLoading == [][C26_Step]_vars

\* a component whose loading failed, asked to update again
C26_Witness ==
    /\ componentCalls = << "Load", "UpdateLoading", "UpdateLoading" >>
    /\ resourceLoadingStatus = "Failed"
    /\ m_status = "LoadingFailed"

----------------------------------------------------------------------------
(* Properties of the project files and aggregate includes (SpecSolution) *)

\* GenerateCodeForProject is between its two project files
BetweenProjectFiles == pc = "ProjectSource"

\* C27: outside the two calls of lines 167-175, for every project the list
\* holds the project type-info header file exactly when it holds the project
\* type-info source file, and a project that returned true has both
C27_HeaderSourcePair ==
    ~BetweenProjectFiles =>
        /\ \A i \in 1..Len(projects) :
             HasFile("ProjectHeader", projects[i].m_ID)
                <=> HasFile("ProjectSource", projects[i].m_ID)
        /\ ( pc = "ProjectReturned" /\ prjResults[Len(prjResults)] )
             => HasFile("ProjectSource", CurrentProject.m_ID)

\* GenerateCodeForProject returned false for a cyclic project after a good
\* one returned true: one pair in the list, none for the failed project
C27_Witness ==
    /\ pc = "ProjectReturned"
    /\ prjResults = << TRUE, FALSE >>
    /\ m_errorMessage.kind = "CyclicDependency"
    /\ Cardinality(FilesOfKind("ProjectHeader")) = 1
    /\ Cardinality(FilesOfKind("ProjectSource")) = 1

\* the projects an aggregate file names: by include and by function call
NamedProjects(f) ==
    Range(FileAt(f).includes)
    \cup { FileAt(f).registerTypes[k].arg : k \in 1..Len(FileAt(f).registerTypes) }
    \cup { FileAt(f).unregisterTypes[k].arg : k \in 1..Len(FileAt(f).unregisterTypes) }

\* C28: every project an aggregate file includes or calls has its project
\* type-info header file in the generated-file list
C28_AggregateNamesGeneratedProjects ==
    \A f \in AggregateFiles :
        \A id \in NamedProjects(f) \ { InvalidID } : HasFile("ProjectHeader", id)

----------------------------------------------------------------------------
(* Properties of the resource and data-file registration (SpecResources) *)

\* C29: every parent code emitted for a resource type that an aggregate file
\* registers is the code of a resource type the same file registers, and in
\* the runtime aggregate a parent code is never that of a development-only
\* resource type
C29_ParentsRegisteredInMode ==
    \A f \in AggregateFiles :
        \A i \in 1..Len(FileAt(f).resourceRegistrations) :
            LET info == FileAt(f).resourceRegistrations[i]
            IN  \A k \in 1..Len(info.m_parentTypes) :
                    /\ info.m_parentTypes[k] \in Range(RegisteredCodes(f))
                    /\ m_generatedFiles[f].m_path.kind = "Runtime"
                         => info.m_parentTypes[k] \notin ResourceCodes({TRUE})

\* C30: in every aggregate file the resource types unregistered are the
\* resource types registered, in reverse order, and the data-file types
\* unregistered are the data-file types registered, in reverse order
C30_UnregisterReversesRegister ==
    \A f \in AggregateFiles :
        /\ FileAt(f).resourceUnregistrations = Reverse(RegisteredCodes(f))
        /\ FileAt(f).dataFileUnregistrations = Reverse(FileAt(f).dataFileRegistrations)

\* a tooling aggregate with several resource types and several data-file
\* types, after a runtime aggregate that left a development-only one out
C30_Witness ==
    /\ \E f \in FilesOfKind("Tools") :
         /\ Len(FileAt(f).resourceUnregistrations) >= 2
         /\ Len(FileAt(f).dataFileUnregistrations) >= 2
         /\ \E g \in FilesOfKind("Runtime") :
              /\ Len(FileAt(g).resourceUnregistrations) >= 2
              /\ Len(FileAt(g).resourceUnregistrations) < Len(FileAt(f).resourceUnregistrations)

====
